---- MODULE Spec2Model ----
(***************************************************************************)
(* Model of the HCI command engine of n-ble (src/src/Hci.ts): the single   *)
(* pending-command slot (onCmdComplete, cmdOpcode), the command timer, the *)
(* promise returned by send, the packet builder, the event parser onData   *)
(* and the opcode pack/unpack of HciOpcode; and of the pure codecs: the    *)
(* ATT PDUs (src/unnamed/part_000), AdvDataParser (src/src/               *)
(* AdvDataParser.ts) and the parameter codecs of src/src/HciLeController.ts*)
(* and Hci.ts, each as a state machine over the variable call.             *)
(***************************************************************************)
EXTENDS Integers, Sequences, FiniteSets, TLC

(* ------------------------------ bounds --------------------------------- *)

\* number of calls of Hci.send in one behaviour
MaxCmds == 2
\* number of event buffers the transport feeds to onData in one behaviour
MaxEvents == 2

(* ------------------------- program constants --------------------------- *)

\* enum HciEventCode { HCI_EVT_CMD_COMPLETE = 0x0e }
HCI_EVT_CMD_COMPLETE == 14
\* HciErrorCode.Success: the status byte of the reply 0e 04 01 03 0c 00 that the
\* example script feeds to complete reset()
Success == 0
\* largest value Buffer.writeUInt8 accepts for the param_len byte
MaxUInt8 == 255
\* largest value Buffer.writeUInt16LE accepts for the opcode
MaxUInt16 == 65535
\* width of the OCF field: expand masks with 1023 and shifts by 10
OcfBits == 10
\* largest OGF that fits the 6 bits left above the OCF
MaxOgf == 63
\* largest OCF that fits OcfBits bits
MaxOcf == 1023

(* --------------------- JavaScript integer operators -------------------- *)

\* The operands of the ECMAScript bitwise operators are 32-bit two's complement
\* integers; they are handled here as a sign bit and the 31 bits below it.
Pow2(n) == 2 ^ n
MaxInt32 == 2147483647

\* bits 0..30 of the two's complement form of x
Low31(x) == IF x >= 0 THEN x ELSE (x + MaxInt32) + 1
\* the 32-bit integer with sign bit neg and bits 0..30 given by low
FromBits(neg, low) == IF neg THEN (low - MaxInt32) - 1 ELSE low
\* bit i (0..30) of x
Bit(x, i) == (Low31(x) \div Pow2(i)) % 2

RECURSIVE OrBits(_, _, _)
OrBits(a, b, i) ==
  IF i < 0 THEN 0
  ELSE (IF Bit(a, i) = 1 \/ Bit(b, i) = 1 THEN Pow2(i) ELSE 0) + OrBits(a, b, i - 1)

RECURSIVE AndBits(_, _, _)
AndBits(a, b, i) ==
  IF i < 0 THEN 0
  ELSE (IF Bit(a, i) = 1 /\ Bit(b, i) = 1 THEN Pow2(i) ELSE 0) + AndBits(a, b, i - 1)

\* a | b
BitOr(a, b) == FromBits(a < 0 \/ b < 0, OrBits(a, b, 30))
\* a & b
BitAnd(a, b) == FromBits(a < 0 /\ b < 0, AndBits(a, b, 30))
\* a << n, 0 < n < 31: the bits shifted beyond bit 31 are lost, bit 31 is the sign
ShiftLeft(a, n) ==
  FromBits(Bit(a, 31 - n) = 1, (Low31(a) % Pow2(31 - n)) * Pow2(n))
\* a >> n (sign propagating)
ShiftRight(a, n) == a \div Pow2(n)

(* ------------------------------ HciOpcode ------------------------------ *)

\* HciOpcode.build: opcode.ogf << 10 | opcode.ocf
build(opcode) == BitOr(ShiftLeft(opcode.ogf, OcfBits), opcode.ocf)

\* expand with a 9-bit mask
expand_mask511(opcode) ==
  [ogf |-> ShiftRight(opcode, OcfBits), ocf |-> BitAnd(opcode, 511)]

\* HciOpcode.expand: { ogf: opcode >> 10, ocf: opcode & 1023 }
expand(opcode) ==
  [ogf |-> ShiftRight(opcode, OcfBits), ocf |-> BitAnd(opcode, MaxOcf)]

\* opcode sent by Hci.reset: HciOgf.ControlAndBasebandCommands (0x03) and
\* HciOcfControlAndBasebandCommands.Reset (0x0003)
ResetOpcode == build([ogf |-> 3, ocf |-> 3])
\* opcode sent by Hci.readBdAddr: HciOgf.InformationParameters (0x04) and
\* HciOcfInformationParameters.ReadBdAddr (0x0009)
ReadBdAddrOpcode == build([ogf |-> 4, ocf |-> 9])

(* ------------------------------- buffers ------------------------------- *)

\* buf.slice(start): the bytes from 0-based index start to the end
SliceFrom(buf, start) ==
  IF start >= Len(buf) THEN <<>> ELSE SubSeq(buf, start + 1, Len(buf))

\* buf.readUInt16LE(offset), offset 0-based
ReadUInt16LE(buf, offset) == buf[offset + 1] + 256 * buf[offset + 2]

\* buildBuffer with the length byte truncated to 8 bits instead of range checked
buildBuffer_truncated(cmd) ==
  [threw |-> cmd.opcode < 0 \/ cmd.opcode > MaxUInt16,
   buffer |-> <<cmd.opcode % 256, (cmd.opcode \div 256) % 256, Len(cmd.params) % 256>>
                \o cmd.params]

\* Hci.buildBuffer: [opcode u16 LE][payloadLength u8][params]; writeUInt16LE
\* and writeUInt8 throw a RangeError on a value outside their range
buildBuffer(cmd) ==
  LET payloadLength == Len(cmd.params)
  IN  IF cmd.opcode < 0 \/ cmd.opcode > MaxUInt16 \/ payloadLength > MaxUInt8
      THEN [threw |-> TRUE, buffer |-> <<>>]
      ELSE [threw |-> FALSE,
            buffer |-> <<cmd.opcode % 256, cmd.opcode \div 256, payloadLength>>
                         \o cmd.params]

(* ------------------------------ the state ------------------------------ *)

VARIABLES
  onCmdComplete,  \* Hci.onCmdComplete: 0 for null, else the call of send whose closure it holds
  cmdOpcode,      \* Hci.cmdOpcode
  timers,         \* the armed timeoutIds, each named by the call of send that armed it
  promise,        \* the promise returned by each call of send
  completedBy,    \* history: how complete() was invoked for each call of send
  submitted,      \* history: the opcode of each call of send, in order
  sentIds,        \* history: the calls of send whose packet was handed to sendRaw
  wire,           \* the buffer handed to sendRaw by the last operation, empty if none
  replied,        \* the calls of send whose controller reply has been delivered
  emitted,        \* number of 'parser-error' events emitted
  nEvents,        \* number of buffers fed to onData by the transport
  last,           \* history: the last operation, its input and the engine it found
  call            \* the last call of a pure function: its name, argument and result

vars == <<onCmdComplete, cmdOpcode, timers, promise, completedBy, submitted,
          sentIds, wire, replied, emitted, nEvents, last, call>>

CallIds == 1..MaxCmds

\* interface HciEvtCmdComplete, and the value standing for "no event"
NoEvt == [numHciPackets |-> 0, opcode |-> 0, status |-> 0, returnParameters |-> <<>>]

\* states of a promise: created and not settled, resolved with evt, rejected with err
NotCreated == [st |-> "none", err |-> "", code |-> 0, evt |-> NoEvt]
Awaiting == [st |-> "awaiting", err |-> "", code |-> 0, evt |-> NoEvt]
Resolved(evt) == [st |-> "resolved", err |-> "", code |-> 0, evt |-> evt]
Rejected(err) == [st |-> "rejected", err |-> err.name, code |-> err.code, evt |-> NoEvt]

\* Hci.makeError(code) and the value standing for "no error"
NoErr == [name |-> "", code |-> 0]
makeError(code) == [name |-> code, code |-> 0]
\* Hci.makeHciError(code): new HciError(code)
makeHciError(code) == [name |-> "HciError", code |-> code]
\* the RangeError thrown by Buffer.writeUInt8 / writeUInt16LE
RangeError == [name |-> "RangeError", code |-> 0]
\* the error thrown by the injected send callback
TransportError == [name |-> "TransportError", code |-> 0]

\* promises that can be settled again: a later resolve or reject replaces
\* the outcome
settle_overwrites(p, v) == v

\* resolve / reject of a promise: only the first settlement has an effect
settle(p, v) == IF p.st = "awaiting" THEN v ELSE p

\* the fields of the Hci object and of its runtime, as one record
H == [onCmdComplete |-> onCmdComplete, cmdOpcode |-> cmdOpcode, timers |-> timers,
      promise |-> promise, completedBy |-> completedBy, sentIds |-> sentIds,
      wire |-> <<>>, emitted |-> emitted]

\* the engine as an operation finds it, kept in last.pre
Pre == [onCmdComplete |-> onCmdComplete, cmdOpcode |-> cmdOpcode, timers |-> timers,
        promise |-> promise, completedBy |-> completedBy, emitted |-> emitted]

SetH(h) ==
  /\ onCmdComplete' = h.onCmdComplete
  /\ cmdOpcode' = h.cmdOpcode
  /\ timers' = h.timers
  /\ promise' = h.promise
  /\ completedBy' = h.completedBy
  /\ sentIds' = h.sentIds
  /\ wire' = h.wire
  /\ emitted' = h.emitted

(* ------------------------------ Hci.send ------------------------------- *)

\* complete without clearTimeout(timeoutId)
complete_keepsTimer(h, n, err, evt) ==
  [h EXCEPT !.timers = IF err.name = "Timeout" THEN @ \ {n} ELSE @,
            !.onCmdComplete = 0,
            !.promise[n] = settle(@, IF err # NoErr THEN Rejected(err) ELSE Resolved(evt)),
            !.completedBy[n] = IF err.name = "Timeout" THEN "timeout" ELSE "event"]

\* complete without this.onCmdComplete = null
complete_keepsSlot(h, n, err, evt) ==
  [h EXCEPT !.timers = @ \ {n},
            !.promise[n] = settle(@, IF err # NoErr THEN Rejected(err) ELSE Resolved(evt)),
            !.completedBy[n] = IF err.name = "Timeout" THEN "timeout" ELSE "event"]

\* the closure complete of call n of send: clearTimeout(timeoutId);
\* this.onCmdComplete = null; err ? reject(err) : resolve(evt)
complete(h, n, err, evt) ==
  [h EXCEPT !.timers = @ \ {n},
            !.onCmdComplete = 0,
            !.promise[n] = settle(@, IF err # NoErr THEN Rejected(err) ELSE Resolved(evt)),
            !.completedBy[n] = IF err.name = "Timeout" THEN "timeout" ELSE "event"]

\* the opcode test left out: every Command Complete completes the pending command
opcodeMatches_any(pendingOpcode, evtOpcode) == TRUE

\* this.cmdOpcode !== evt.opcode, negated
opcodeMatches(pendingOpcode, evtOpcode) == pendingOpcode = evtOpcode

\* the closure without the status test: every matching event resolves
onCmdCompleteClosure_noStatus(h, n, evt) ==
  IF ~opcodeMatches(h.cmdOpcode, evt.opcode) THEN h ELSE complete(h, n, NoErr, evt)

\* the closure stored in this.onCmdComplete by call n of send
onCmdCompleteClosure(h, n, evt) ==
  IF ~opcodeMatches(h.cmdOpcode, evt.opcode) THEN h
  ELSE IF evt.status = Success THEN complete(h, n, NoErr, evt)
  ELSE complete(h, n, makeHciError(evt.status), NoEvt)

\* this.emit('parser-error', ...)
emitParserError(h) == [h EXCEPT !.emitted = @ + 1]

\* the header check left out
lengthMatches_any(payloadLength, payload) == TRUE

\* the header check of onData: payloadLength !== payload.length, negated
lengthMatches(payloadLength, payload) == payloadLength = Len(payload)

\* Hci.onData
onData(h, data) ==
  IF Len(data) < 2 THEN h
  ELSE LET eventCode == data[1]
           payloadLength == data[2]
           payload == SliceFrom(data, 2)
       IN  IF ~lengthMatches(payloadLength, payload) THEN emitParserError(h)
           ELSE IF eventCode = HCI_EVT_CMD_COMPLETE
                THEN IF Len(payload) < 4 THEN emitParserError(h)
                     ELSE IF h.onCmdComplete # 0
                          THEN onCmdCompleteClosure(h, h.onCmdComplete,
                                 [numHciPackets |-> payload[1],
                                  opcode |-> ReadUInt16LE(payload, 1),
                                  status |-> payload[4],
                                  returnParameters |-> SliceFrom(payload, 4)])
                          ELSE h
                ELSE h

\* the Busy test left out
isBusy_never(h) == FALSE

\* the test this.onCmdComplete !== null at the head of send
isBusy(h) == h.onCmdComplete # 0

\* the Busy rejection made through the completion routine of a pending
\* command: the slot is emptied and the timers are cancelled
rejectBusy_completes(h, n) ==
  [h EXCEPT !.promise[n] = Rejected(makeError("Busy")),
            !.onCmdComplete = 0,
            !.timers = {}]

\* return reject(this.makeError(HciParserError.Busy))
rejectBusy(h, n) == [h EXCEPT !.promise[n] = Rejected(makeError("Busy"))]

\* send with the packet handed to sendRaw before the timer is armed and
\* this.onCmdComplete and this.cmdOpcode are set
send_handsOverFirst(h, n, cmd, transport) ==
  IF isBusy(h) THEN rejectBusy(h, n)
  ELSE LET built == buildBuffer(cmd)
           handed == [h EXCEPT !.promise[n] = Awaiting,
                               !.sentIds = @ \cup {n},
                               !.wire = built.buffer]
           arm(g) == [g EXCEPT !.timers = @ \cup {n},
                               !.onCmdComplete = n,
                               !.cmdOpcode = cmd.opcode]
       IN  IF built.threw
           THEN [h EXCEPT !.promise[n] = Rejected(RangeError)]
           ELSE CASE transport.outcome = "return" -> arm(handed)
                  [] transport.outcome = "throw" ->
                       [handed EXCEPT !.promise[n] = settle(@, Rejected(TransportError))]
                  [] transport.outcome = "sync" -> arm(onData(handed, transport.data))

\* Hci.send, call n, with the behaviour of the injected send callback:
\* it returns, it throws, or it feeds an event to the handler before returning
send(h, n, cmd, transport) ==
  IF isBusy(h) THEN rejectBusy(h, n)
  ELSE LET armed == [h EXCEPT !.promise[n] = Awaiting,
                              !.timers = @ \cup {n},
                              !.onCmdComplete = n,
                              !.cmdOpcode = cmd.opcode]
           built == buildBuffer(cmd)
       IN  IF built.threw
           THEN [armed EXCEPT !.promise[n] = settle(@, Rejected(RangeError))]
           ELSE LET handed == [armed EXCEPT !.sentIds = @ \cup {n},
                                            !.wire = built.buffer]
                IN  CASE transport.outcome = "return" -> handed
                      [] transport.outcome = "throw" ->
                           [handed EXCEPT !.promise[n] = settle(@, Rejected(TransportError))]
                      [] transport.outcome = "sync" -> onData(handed, transport.data)

\* the callback given to setTimeout by call n of send
onTimeout(h, n) == complete(h, n, makeError("Timeout"), NoEvt)

(* ------------------------------- inputs -------------------------------- *)

\* a parameter block of n bytes 1, 2, 3, ...
Bytes(n) == [i \in 1..n |-> i % 256]

\* the commands the callers submit: Read BD_ADDR, and Reset without parameters,
\* with the longest parameter block that fits the length byte and with the
\* shortest one that does not
CmdInputs ==
  {[opcode |-> ResetOpcode, params |-> ps] :
     ps \in {<<>>, Bytes(MaxUInt8), Bytes(MaxUInt8 + 1)}}
  \cup {[opcode |-> ReadBdAddrOpcode, params |-> <<>>]}

\* a well-formed Command Complete event packet
CmdCompleteEvt(num, opcode, status, rp) ==
  <<HCI_EVT_CMD_COMPLETE, 4 + Len(rp), num, opcode % 256, opcode \div 256, status>> \o rp

\* the Command Complete events a controller sends for a command with this opcode:
\* status Success with a return parameter, or status Command Disallowed (0x0C)
RepliesTo(opcode) ==
  {CmdCompleteEvt(1, opcode, Success, <<7>>), CmdCompleteEvt(1, opcode, 12, <<>>)}

\* the buffers the transport feeds to onData: replies for both opcodes, the
\* reply 0e 04 01 03 0c 00 to Reset, a NOP Command Complete (opcode 0), and
\* malformed or foreign packets
EventInputs ==
  RepliesTo(ResetOpcode) \cup RepliesTo(ReadBdAddrOpcode) \cup
  { <<HCI_EVT_CMD_COMPLETE, 4, 1, 3, 12, 0>>,
    CmdCompleteEvt(1, 0, Success, <<>>),
    <<HCI_EVT_CMD_COMPLETE>>,              \* one byte: no length byte
    <<HCI_EVT_CMD_COMPLETE, 5, 1, 3, 12, 0>>,   \* declares 5, carries 4
    <<HCI_EVT_CMD_COMPLETE, 3, 1, 3, 12>>,      \* Command Complete shorter than 4
    <<62, 4, 1, 3, 12, 0>>,                \* LE Meta event with the same body
    <<62, 2, 1, 3, 12, 0>> }               \* LE Meta event, declares 2, carries 4

\* what the injected send callback does when it is handed the packet of cmd
TransportInputs(cmd) ==
  {[outcome |-> "return", data |-> <<>>], [outcome |-> "throw", data |-> <<>>]}
  \cup {[outcome |-> "sync", data |-> CmdCompleteEvt(1, cmd.opcode, Success, <<>>)]}

NoCmd == [opcode |-> 0, params |-> <<>>]
NoOp == [op |-> "none", id |-> 0, cmd |-> NoCmd, transport |-> "", data |-> <<>>,
         late |-> FALSE, pre |-> [onCmdComplete |-> 0, cmdOpcode |-> 0, timers |-> {},
                                  promise |-> [n \in CallIds |-> NotCreated],
                                  completedBy |-> [n \in CallIds |-> "none"],
                                  emitted |-> 0]]
NoOpcode == [ogf |-> 0, ocf |-> 0]
NoCall == [fn |-> "none", opcode |-> NoOpcode, packed |-> 0, expanded |-> NoOpcode]

(* ---------------------------- the state machine ------------------------ *)

\* the Hci object after its constructor, before any command
InitHci ==
  /\ onCmdComplete = 0
  /\ cmdOpcode = 0
  /\ timers = {}
  /\ promise = [n \in CallIds |-> NotCreated]
  /\ completedBy = [n \in CallIds |-> "none"]
  /\ submitted = <<>>
  /\ sentIds = {}
  /\ wire = <<>>
  /\ replied = {}
  /\ emitted = 0
  /\ nEvents = 0
  /\ last = NoOp

Init == InitHci /\ call = NoCall

\* a caller invokes a command method, which calls send(cmd)
Send(cmd, transport) ==
  /\ Len(submitted) < MaxCmds
  /\ transport.outcome # "return" => (~isBusy(H) /\ ~buildBuffer(cmd).threw)
  /\ LET n == Len(submitted) + 1
         h == send(H, n, cmd, transport)
     IN  /\ SetH(h)
         /\ submitted' = Append(submitted, cmd.opcode)
         /\ replied' = IF transport.outcome = "sync" THEN replied \cup {n} ELSE replied
         /\ last' = [op |-> "send", id |-> n, cmd |-> cmd,
                     transport |-> transport.outcome, data |-> transport.data,
                     late |-> FALSE, pre |-> Pre]
  /\ UNCHANGED <<nEvents, call>>

\* the transport invokes the event handler with data; tag names the call of send
\* that data is the controller's reply to, 0 when it is not a reply
OnData(data, tag) ==
  /\ nEvents < MaxEvents
  /\ tag # 0 => (tag \in sentIds \ replied /\ data \in RepliesTo(submitted[tag]))
  /\ SetH(onData(H, data))
  /\ nEvents' = nEvents + 1
  /\ replied' = replied \cup ({tag} \ {0})
  /\ last' = [op |-> "onData", id |-> tag, cmd |-> NoCmd, transport |-> "",
              data |-> data,
              late |-> (tag # 0 /\ completedBy[tag] = "timeout"), pre |-> Pre]
  /\ UNCHANGED <<submitted, call>>

\* cmdTimeout has elapsed since call n of send armed its timer
Timeout(n) ==
  /\ n \in timers
  /\ SetH(onTimeout(H, n))
  /\ last' = [op |-> "timeout", id |-> n, cmd |-> NoCmd, transport |-> "",
              data |-> <<>>, late |-> FALSE, pre |-> Pre]
  /\ UNCHANGED <<submitted, replied, nEvents, call>>

SendAny == \E cmd \in CmdInputs : \E transport \in TransportInputs(cmd) : Send(cmd, transport)
OnDataAny == \E data \in EventInputs : \E tag \in {0} \cup CallIds : OnData(data, tag)
TimeoutAny == \E n \in CallIds : Timeout(n)

Next == SendAny \/ OnDataAny \/ TimeoutAny

Spec == Init /\ [][Next]_vars

(* ----------------------- HciOpcode as a state machine ------------------ *)

\* every (ogf, ocf) that fits the 6 + 10 bits of an opcode
InitOpcode ==
  /\ InitHci
  /\ call \in {[fn |-> "none", opcode |-> [ogf |-> g, ocf |-> c], packed |-> 0,
                expanded |-> NoOpcode] : g \in 0..MaxOgf, c \in 0..MaxOcf}

CallBuild ==
  /\ call.fn = "none"
  /\ call' = [call EXCEPT !.fn = "build", !.packed = build(call.opcode)]
  /\ UNCHANGED <<onCmdComplete, cmdOpcode, timers, promise, completedBy, submitted,
                 sentIds, wire, replied, emitted, nEvents, last>>

CallExpand ==
  /\ call.fn = "build"
  /\ call' = [call EXCEPT !.fn = "expand", !.expanded = expand(call.packed)]
  /\ UNCHANGED <<onCmdComplete, cmdOpcode, timers, promise, completedBy, submitted,
                 sentIds, wire, replied, emitted, nEvents, last>>

NextOpcode == CallBuild \/ CallExpand

SpecOpcode == InitOpcode /\ [][NextOpcode]_vars

(* ------------------------------ properties ----------------------------- *)

\* data is a well-formed Command Complete event packet
IsCmdComplete(data) ==
  Len(data) >= 6 /\ data[1] = HCI_EVT_CMD_COMPLETE /\ data[2] = Len(data) - 2
\* its opcode, status and return parameters, read off the wire layout
EvtOpcode(data) == data[4] + 256 * data[5]
EvtStatus(data) == data[6]
EvtReturnParameters(data) == SubSeq(data, 7, Len(data))

\* the last operation left the pending slot, the pending opcode, the timers and
\* every promise as it found them
EngineUntouched ==
  /\ onCmdComplete = last.pre.onCmdComplete
  /\ cmdOpcode = last.pre.cmdOpcode
  /\ timers = last.pre.timers
  /\ promise = last.pre.promise

\* call m of send passed the Busy test and complete() had not yet been invoked
\* for it when the last operation started
InProgressBefore(m) ==
  /\ last.pre.promise[m].st # "none"
  /\ last.pre.promise[m].err # "Busy"
  /\ last.pre.completedBy[m] = "none"

\* C1: a submission made while an earlier command has been accepted and has
\* not yet been completed, by a matching Command Complete or by its timeout, is
\* rejected with Busy, whatever its opcode.
C1_MutualExclusion ==
  (last.op = "send" /\ \E m \in 1..(last.id - 1) : InProgressBefore(m))
    => promise[last.id] = Rejected(makeError("Busy"))

\* a command was rejected with Busy while a command of another opcode was pending
C1_Witness ==
  /\ last.op = "send"
  /\ promise[last.id].err = "Busy"
  /\ onCmdComplete # 0
  /\ last.cmd.opcode # cmdOpcode

\* C2: a well-formed Command Complete whose opcode differs from the pending
\* opcode leaves the promises, the pending slot, the pending opcode and the
\* timer as they were; the timer of the pending command stays armed.
C2_OpcodeDirectedDispatch ==
  (/\ last.op = "onData"
   /\ IsCmdComplete(last.data)
   /\ last.pre.onCmdComplete # 0
   /\ EvtOpcode(last.data) # last.pre.cmdOpcode)
    => (EngineUntouched /\ onCmdComplete \in timers)

\* a Command Complete of another opcode arrived while a caller was awaiting
C2_Witness ==
  /\ last.op = "onData"
  /\ IsCmdComplete(last.data)
  /\ last.pre.onCmdComplete # 0
  /\ EvtOpcode(last.data) # last.pre.cmdOpcode
  /\ EvtOpcode(last.data) # 0
  /\ promise[onCmdComplete].st = "awaiting"

\* C3: when the timer of a pending command fires, the awaiting caller is
\* rejected with Timeout and the slot is cleared; the next submission is not
\* rejected with Busy, and it is resolved when its own successful Command
\* Complete arrives.
C3_TimeoutResets ==
  /\ last.op = "timeout" =>
       /\ onCmdComplete = 0
       /\ last.id \notin timers
       /\ last.pre.promise[last.id].st = "awaiting"
            => promise[last.id] = Rejected(makeError("Timeout"))
  /\ (last.op = "send" /\ last.id > 1 /\ last.pre.completedBy[last.id - 1] = "timeout")
       => /\ promise[last.id].err # "Busy"
          /\ last.transport = "return" => (onCmdComplete = last.id /\ last.id \in timers)
  /\ (/\ last.op = "onData"
      /\ IsCmdComplete(last.data)
      /\ last.pre.onCmdComplete > 1
      /\ last.pre.completedBy[last.pre.onCmdComplete - 1] = "timeout"
      /\ last.pre.promise[last.pre.onCmdComplete].st = "awaiting"
      /\ EvtOpcode(last.data) = last.pre.cmdOpcode
      /\ EvtStatus(last.data) = Success)
       => promise[last.pre.onCmdComplete].st = "resolved"

\* a command timed out and the command submitted after it was resolved
C3_Witness ==
  \E n \in 2..Len(submitted) :
    /\ promise[n - 1] = Rejected(makeError("Timeout"))
    /\ completedBy[n - 1] = "timeout"
    /\ promise[n].st = "resolved"

\* C4: a well-formed Command Complete whose opcode equals the pending opcode
\* clears the slot and cancels the timer, and the awaiting caller is resolved
\* with the return parameters (the bytes after num_hci_packets, opcode and
\* status) when the status is 0x00, and rejected with an HciError carrying the
\* received status byte otherwise.
C4_CompletionByStatus ==
  (/\ last.op = "onData"
   /\ IsCmdComplete(last.data)
   /\ last.pre.onCmdComplete # 0
   /\ EvtOpcode(last.data) = last.pre.cmdOpcode)
    => LET n == last.pre.onCmdComplete
       IN  /\ onCmdComplete = 0
           /\ n \notin timers
           /\ last.pre.promise[n].st = "awaiting" =>
                IF EvtStatus(last.data) = 0
                THEN /\ promise[n].st = "resolved"
                     /\ promise[n].evt.returnParameters = EvtReturnParameters(last.data)
                     /\ promise[n].evt.opcode = last.pre.cmdOpcode
                     /\ promise[n].evt.status = 0
                ELSE /\ promise[n].st = "rejected"
                     /\ promise[n].err = "HciError"
                     /\ promise[n].code = EvtStatus(last.data)

\* one caller was resolved with a return parameter and one rejected with the
\* status 0x0C of its event
C4_Witness ==
  \E a, b \in 1..Len(submitted) :
    /\ promise[a].st = "resolved"
    /\ promise[a].evt.returnParameters = <<7>>
    /\ promise[b].err = "HciError"
    /\ promise[b].code = 12
    /\ last.op = "onData"

\* C5: of the commands handed to the transport at most one has a caller still
\* awaiting, and whenever a packet is handed to the transport the callers of
\* all packets handed over earlier have been resumed.
C5_AtMostOneInFlight ==
  /\ Cardinality({n \in sentIds : promise[n].st = "awaiting"}) <= 1
  /\ (last.op = "send" /\ last.id \in sentIds)
       => \A m \in sentIds \ {last.id} : last.pre.promise[m].st \notin {"none", "awaiting"}

\* a second packet was handed to the transport
C5_Witness ==
  /\ last.op = "send"
  /\ last.id \in sentIds
  /\ Cardinality(sentIds) >= 2

\* the last operation delivered the controller's reply to a command that had
\* already timed out, while a command of the same opcode was pending
LateReplyMeetsSameOpcode ==
  /\ last.late
  /\ last.pre.onCmdComplete # 0
  /\ last.pre.cmdOpcode = EvtOpcode(last.data)

\* C6, as claimed: the Command Complete of a command that has already timed
\* out resumes no caller and leaves the engine unchanged, whatever has been
\* submitted since, a command of the same opcode included.
C6_LateReplyDiscarded == last.late => EngineUntouched

\* C6, amended: the Command Complete of a command that has already timed out
\* resumes no caller and leaves the engine unchanged when no command is pending
\* or the pending command has another opcode; when a command of the same opcode
\* is pending, the late event completes that command.
C6_LateReplyDiscardedUnlessSameOpcode ==
  /\ (last.late /\ ~LateReplyMeetsSameOpcode) => EngineUntouched
  /\ LateReplyMeetsSameOpcode =>
       /\ onCmdComplete = 0
       /\ last.pre.onCmdComplete \notin timers
       /\ completedBy[last.pre.onCmdComplete] = "event"
       /\ promise[last.pre.onCmdComplete].st \in {"resolved", "rejected"}

\* the reply to a timed-out command arrived while a command of another opcode
\* was pending and its caller awaiting
C6_Witness ==
  /\ last.late
  /\ last.pre.onCmdComplete # 0
  /\ last.pre.cmdOpcode # EvtOpcode(last.data)
  /\ promise[last.pre.onCmdComplete].st = "awaiting"

\* C7, as claimed: when the send callback throws on being handed the packet,
\* the pending slot is destroyed and the engine is idle again.
C7_TransportFailureFreesSlot ==
  (last.op = "send" /\ last.transport = "throw")
    => (onCmdComplete = 0 /\ timers = {})

\* C8: an event whose declared parameter length differs from the number of
\* bytes after the header emits one 'parser-error', rejects no caller, and
\* leaves the pending slot, the pending opcode and the timer unchanged.
C8_FramingErrorKeepsPending ==
  (/\ last.op = "onData"
   /\ Len(last.data) >= 2
   /\ last.data[2] # Len(last.data) - 2)
    => (EngineUntouched /\ emitted = last.pre.emitted + 1)

\* a Command Complete for the pending opcode with a wrong length byte arrived
\* while the caller was awaiting
C8_Witness ==
  /\ last.op = "onData"
  /\ Len(last.data) >= 6
  /\ last.data[1] = HCI_EVT_CMD_COMPLETE
  /\ last.data[2] # Len(last.data) - 2
  /\ onCmdComplete # 0
  /\ EvtOpcode(last.data) = cmdOpcode
  /\ promise[onCmdComplete].st = "awaiting"

\* C9: a packet handed to the send callback is the opcode, low byte first,
\* the number of parameter bytes, at most 255, and the parameters; without
\* parameters it has 3 bytes, and Reset yields 03 0C 00. A command is handed
\* to the transport exactly when a packet is on the wire.
C9_PacketForm ==
  last.op = "send" =>
    /\ (wire # <<>>) <=> (last.id \in sentIds)
    /\ wire # <<>> =>
         /\ Len(wire) = 3 + Len(last.cmd.params)
         /\ wire[1] = last.cmd.opcode % 256
         /\ wire[2] = last.cmd.opcode \div 256
         /\ wire[3] = Len(last.cmd.params)
         /\ wire[3] <= 255
         /\ SubSeq(wire, 4, Len(wire)) = last.cmd.params
         /\ last.cmd.params = <<>> => Len(wire) = 3
         /\ last.cmd = [opcode |-> 3075, params |-> <<>>] => wire = <<3, 12, 0>>

\* Reset was handed to the transport
C9_Witness ==
  /\ last.op = "send"
  /\ last.cmd.opcode = ResetOpcode
  /\ wire = <<3, 12, 0>>

\* C10: for every ogf in 0..63 and ocf in 0..1023, build returns
\* ogf * 1024 + ocf, a value in 0..65535, and expand returns {ogf, ocf} from it.
C10_OpcodeRoundTrip ==
  /\ call.fn \in {"build", "expand"} =>
       /\ call.packed = call.opcode.ogf * 1024 + call.opcode.ocf
       /\ call.packed \in 0..65535
  /\ call.fn = "expand" => call.expanded = call.opcode

\* the largest opcode went through build and expand
C10_Witness ==
  /\ call.fn = "expand"
  /\ call.opcode = [ogf |-> 63, ocf |-> 1023]
  /\ call.packed = 65535

(* ---------------------------- ATT PDU codecs --------------------------- *)

\* the engine variables, which the codec functions never touch
hciVars == <<onCmdComplete, cmdOpcode, timers, promise, completedBy, submitted,
             sentIds, wire, replied, emitted, nEvents, last>>

\* the members of the enum AttOpcode that the five PDUs use
AttOpcode ==
  [ErrorRsp |-> 1, ExchangeMtuReq |-> 2, ExchangeMtuRsp |-> 3,
   FindInformationReq |-> 4, FindInformationRsp |-> 5]

\* AttErrorRsp.size
AttErrorRspSize == 5
\* AttExchangeMtuReq.size
AttExchangeMtuReqSize == 3
\* AttExchangeMtuRsp.size
AttExchangeMtuRspSize == 3
\* AttFindInformationReq.size
AttFindInformationReqSize == 5
\* AttFindInformationRsp.minSize
AttFindInformationRspMinSize == 6
\* AttFindInformationRsp.uuidFormatToSize
uuidFormatToSize == (1 :> 2) @@ (2 :> 16)
\* AttFindInformationRsp.uuidSizeToFormat
uuidSizeToFormat == (2 :> 1) @@ (16 :> 2)

RECURSIVE readUIntLE(_, _, _)
\* buf.readUIntLE(offset, byteLength), offset 0-based, the bytes being in range
readUIntLE(buf, offset, byteLength) ==
  IF byteLength = 0 THEN 0
  ELSE buf[offset + 1] + 256 * readUIntLE(buf, offset + 1, byteLength - 1)

RECURSIVE uintLE(_, _)
\* the byteLength bytes that writeUIntLE(value, o, byteLength) stores
uintLE(value, byteLength) ==
  IF byteLength = 0 THEN <<>>
  ELSE <<value % 256>> \o uintLE(value \div 256, byteLength - 1)

\* Buffer.reverse, as the bytes the buffer holds afterwards
Reverse(buf) == [i \in 1..Len(buf) |-> buf[Len(buf) + 1 - i]]

\* the outcomes of a deserialize: an exception, null, or a message; buffer is
\* the caller's buffer as the call leaves it
AttThrew(buffer) == [threw |-> TRUE, null |-> FALSE, msg |-> <<>>, buffer |-> buffer]
AttNull(buffer) == [threw |-> FALSE, null |-> TRUE, msg |-> <<>>, buffer |-> buffer]
AttMsg(msg, buffer) == [threw |-> FALSE, null |-> FALSE, msg |-> msg, buffer |-> buffer]

\* AttErrorRsp.serialize; writeUIntLE throws on a value that does not fit
AttErrorRsp_serialize(data) ==
  IF \/ data.requestOpcodeInError > MaxUInt8
     \/ data.attributeHandleInError > MaxUInt16
     \/ data.errorCode > MaxUInt8
  THEN [threw |-> TRUE, buffer |-> <<>>]
  ELSE [threw |-> FALSE,
        buffer |-> uintLE(AttOpcode.ErrorRsp, 1)
                     \o uintLE(data.requestOpcodeInError, 1)
                     \o uintLE(data.attributeHandleInError, 2)
                     \o uintLE(data.errorCode, 1)]

\* AttErrorRsp.deserialize; readUInt8(0) is evaluated before the length is
\* looked at and throws a RangeError on an empty buffer
AttErrorRsp_deserialize(buffer) ==
  IF Len(buffer) = 0 THEN AttThrew(buffer)
  ELSE IF buffer[1] # AttOpcode.ErrorRsp \/ Len(buffer) # AttErrorRspSize
  THEN AttNull(buffer)
  ELSE AttMsg([requestOpcodeInError |-> readUIntLE(buffer, 0, 1),
               attributeHandleInError |-> readUIntLE(buffer, 1, 2),
               errorCode |-> readUIntLE(buffer, 3, 1)], buffer)

\* AttExchangeMtuReq.deserialize
AttExchangeMtuReq_deserialize(buffer) ==
  IF Len(buffer) = 0 THEN AttThrew(buffer)
  ELSE IF buffer[1] # AttOpcode.ExchangeMtuReq \/ Len(buffer) # AttExchangeMtuReqSize
  THEN AttNull(buffer)
  ELSE AttMsg([mtu |-> readUIntLE(buffer, 1, 2)], buffer)

\* AttExchangeMtuRsp.deserialize
AttExchangeMtuRsp_deserialize(buffer) ==
  IF Len(buffer) = 0 THEN AttThrew(buffer)
  ELSE IF buffer[1] # AttOpcode.ExchangeMtuRsp \/ Len(buffer) # AttExchangeMtuRspSize
  THEN AttNull(buffer)
  ELSE AttMsg([mtu |-> readUIntLE(buffer, 1, 2)], buffer)

\* AttFindInformationReq.deserialize
AttFindInformationReq_deserialize(buffer) ==
  IF Len(buffer) = 0 THEN AttThrew(buffer)
  ELSE IF \/ buffer[1] # AttOpcode.FindInformationReq
          \/ Len(buffer) # AttFindInformationReqSize
  THEN AttNull(buffer)
  ELSE AttMsg([startingHandle |-> readUIntLE(buffer, 1, 2),
               endingHandle |-> readUIntLE(buffer, 3, 2)], buffer)

\* AttFindInformationRsp.getUuidSize, 0 for null
getUuidSize(data) ==
  IF data = <<>> THEN 0
  ELSE LET uuidSize == Len(data[1].uuid)
       IN  IF uuidSize # 2 /\ uuidSize # 16 THEN 0
           ELSE IF \E i \in 1..Len(data) : Len(data[i].uuid) # uuidSize THEN 0
           ELSE uuidSize

RECURSIVE writeEntries(_)
\* the for loop of AttFindInformationRsp.serialize: handle, then the uuid
\* bytes copied as the entry holds them
writeEntries(data) ==
  IF data = <<>> THEN <<>>
  ELSE uintLE(data[1].handle, 2) \o data[1].uuid \o writeEntries(Tail(data))

\* AttFindInformationRsp.serialize
AttFindInformationRsp_serialize(data) ==
  LET uuidSize == getUuidSize(data)
  IN  IF uuidSize = 0 \/ uuidSize \notin DOMAIN uuidSizeToFormat
      THEN [threw |-> TRUE, buffer |-> <<>>]
      ELSE IF \E i \in 1..Len(data) : data[i].handle > MaxUInt16
      THEN [threw |-> TRUE, buffer |-> <<>>]
      ELSE [threw |-> FALSE,
            buffer |-> uintLE(AttOpcode.FindInformationRsp, 1)
                         \o uintLE(uuidSizeToFormat[uuidSize], 1)
                         \o writeEntries(data)]

RECURSIVE readEntries(_, _, _)
\* the while loop of AttFindInformationRsp.deserialize from offset o: uuid is
\* a view of buffer (slice clamps at the end of the buffer) and reverse()
\* reverses it in place, so the bytes of the caller's buffer change too
readEntries(buffer, o, uuidSize) ==
  IF o >= Len(buffer) THEN AttMsg(<<>>, buffer)
  ELSE IF o + 2 > Len(buffer) THEN AttThrew(buffer)
  ELSE LET handle == readUIntLE(buffer, o, 2)
           end == IF o + 2 + uuidSize > Len(buffer) THEN Len(buffer)
                  ELSE o + 2 + uuidSize
           uuid == Reverse(SubSeq(buffer, o + 3, end))
           reversed == [i \in 1..Len(buffer) |->
                          IF o + 2 < i /\ i <= end THEN uuid[i - (o + 2)]
                          ELSE buffer[i]]
           rest == readEntries(reversed, o + 2 + uuidSize, uuidSize)
       IN  IF rest.threw THEN rest
           ELSE AttMsg(<<[handle |-> handle, uuid |-> uuid]>> \o rest.msg, rest.buffer)

\* AttFindInformationRsp.deserialize
AttFindInformationRsp_deserialize(buffer) ==
  IF Len(buffer) = 0 THEN AttThrew(buffer)
  ELSE IF \/ buffer[1] # AttOpcode.FindInformationRsp
          \/ Len(buffer) < AttFindInformationRspMinSize
  THEN AttNull(buffer)
  ELSE LET format == buffer[2]
       IN  IF format \notin DOMAIN uuidFormatToSize THEN AttNull(buffer)
           ELSE IF (Len(buffer) - 2) % uuidFormatToSize[format] # 0 THEN AttNull(buffer)
           ELSE readEntries(buffer, 2, uuidFormatToSize[format])

(* ------------------- the ATT codecs as a state machine ----------------- *)

\* length of the byte strings that are fed to the codecs exhaustively
MaxAttLen == 4

\* the bytes of those strings: the five opcodes, which are also the formats
\* 1 and 2, and a byte that is neither
AttBytes == 0..5

RECURSIVE SeqsUpTo(_, _)
\* the sequences over S of length 0..n
SeqsUpTo(S, n) ==
  IF n = 0 THEN {<<>>}
  ELSE LET shorter == SeqsUpTo(S, n - 1)
       IN  shorter \cup {Append(s, b) : s \in {t \in shorter : Len(t) = n - 1}, b \in S}

\* a 128-bit UUID that is not its own reverse
Uuid128 == [i \in 1..16 |-> i]

\* Find Information Responses: well formed in both formats, one byte pair or
\* fourteen bytes short of a whole entry, too short, of an unknown format
FindInformationRspBuffers ==
  { <<5, 1, 1, 0, 0, 40, 2, 0, 1, 40>>,
    <<5, 1, 1, 0, 0, 40>>,
    <<5, 1, 1, 0, 40, 40>>,
    <<5, 1, 1, 0, 0, 40, 2, 0>>,
    <<5, 1, 1, 0, 0, 40, 2>>,
    <<5, 1, 1, 0, 0>>,
    <<5, 3, 1, 0, 0, 40>>,
    <<4, 1, 1, 0, 0, 40>>,
    <<5, 2, 1, 0>> \o Uuid128,
    <<5, 2, 1, 0>> \o Uuid128 \o <<2, 0>> \o Uuid128,
    <<5, 2, 1, 0>> \o SubSeq(Uuid128, 1, 14) }

\* the buffers handed to deserialize
AttBuffers ==
  SeqsUpTo(AttBytes, MaxAttLen)
    \cup {<<1, 8, 18, 0, 10>>, <<2, 8, 18, 0, 10>>, <<4, 1, 0, 255, 255>>}
    \cup FindInformationRspBuffers

\* the records handed to AttErrorRsp.serialize
AttErrorRspMsgs ==
  [requestOpcodeInError : {1, 8, 255},
   attributeHandleInError : {0, 18, 257, 65535},
   errorCode : {1, 10, 255}]

\* a value a caller holds before it calls a codec
Input(type, value) ==
  [fn |-> "input", type |-> type, arg |-> value, res |-> value, prev |-> <<>>]

\* the call of fn on arg that follows the call prev
Applied(fn, arg, res, prev) ==
  [fn |-> fn, type |-> prev.type, arg |-> arg, res |-> res, prev |-> prev]

InitAtt ==
  /\ InitHci
  /\ call \in {Input("Buffer", b) : b \in AttBuffers}
              \cup {Input("AttErrorRspMsg", x) : x \in AttErrorRspMsgs}

\* deserialize of a buffer the caller holds
AttDeserialize(fn, result) ==
  /\ call.fn = "input"
  /\ call.type = "Buffer"
  /\ call' = Applied(fn, call.arg, result, call)
  /\ UNCHANGED hciVars

DeserializeErrorRsp ==
  AttDeserialize("AttErrorRsp.deserialize", AttErrorRsp_deserialize(call.arg))
DeserializeExchangeMtuReq ==
  AttDeserialize("AttExchangeMtuReq.deserialize", AttExchangeMtuReq_deserialize(call.arg))
DeserializeExchangeMtuRsp ==
  AttDeserialize("AttExchangeMtuRsp.deserialize", AttExchangeMtuRsp_deserialize(call.arg))
DeserializeFindInformationReq ==
  AttDeserialize("AttFindInformationReq.deserialize",
                 AttFindInformationReq_deserialize(call.arg))
DeserializeFindInformationRsp ==
  AttDeserialize("AttFindInformationRsp.deserialize",
                 AttFindInformationRsp_deserialize(call.arg))

\* AttErrorRsp.serialize of a record the caller holds
SerializeErrorRsp ==
  /\ call.fn = "input"
  /\ call.type = "AttErrorRspMsg"
  /\ call' = Applied("AttErrorRsp.serialize", call.arg, AttErrorRsp_serialize(call.arg), call)
  /\ UNCHANGED hciVars

\* AttErrorRsp.deserialize of the buffer serialize returned
DeserializeSerializedErrorRsp ==
  /\ call.fn = "AttErrorRsp.serialize"
  /\ ~call.res.threw
  /\ call' = Applied("AttErrorRsp.deserialize", call.res.buffer,
                     AttErrorRsp_deserialize(call.res.buffer), call)
  /\ UNCHANGED hciVars

\* AttFindInformationRsp.serialize of the entries deserialize returned
SerializeDeserializedFindInformationRsp ==
  /\ call.fn = "AttFindInformationRsp.deserialize"
  /\ ~call.res.threw /\ ~call.res.null
  /\ call' = Applied("AttFindInformationRsp.serialize", call.res.msg,
                     AttFindInformationRsp_serialize(call.res.msg), call)
  /\ UNCHANGED hciVars

NextAtt ==
  \/ DeserializeErrorRsp
  \/ DeserializeExchangeMtuReq
  \/ DeserializeExchangeMtuRsp
  \/ DeserializeFindInformationReq
  \/ DeserializeFindInformationRsp
  \/ SerializeErrorRsp
  \/ DeserializeSerializedErrorRsp
  \/ SerializeDeserializedFindInformationRsp

SpecAtt == InitAtt /\ [][NextAtt]_vars

\* C11, as claimed: AttErrorRsp.deserialize(AttErrorRsp.serialize(x)) returns a
\* record equal to x, for every x of the three fields' ranges; serialize lays
\* the bytes out as opcode 0x01, req_opcode, attr_handle LE, error_code.
C11_ErrorRspRoundTrip ==
  /\ call.fn = "AttErrorRsp.serialize" =>
       /\ ~call.res.threw
       /\ call.res.buffer = <<1, call.arg.requestOpcodeInError,
                              call.arg.attributeHandleInError % 256,
                              call.arg.attributeHandleInError \div 256,
                              call.arg.errorCode>>
  /\ (call.fn = "AttErrorRsp.deserialize" /\ call.prev.fn = "AttErrorRsp.serialize") =>
       /\ ~call.res.threw
       /\ ~call.res.null
       /\ call.res.msg = call.prev.arg

\* the fields deserialize returns for a serialized record: each is read one
\* byte before its place
C11_ErrorRspReadsOneByteEarly ==
  (call.fn = "AttErrorRsp.deserialize" /\ call.prev.fn = "AttErrorRsp.serialize") =>
    /\ ~call.res.threw /\ ~call.res.null
    /\ call.res.msg.requestOpcodeInError = AttOpcode.ErrorRsp
    /\ call.res.msg.attributeHandleInError =
         call.prev.arg.requestOpcodeInError
           + 256 * (call.prev.arg.attributeHandleInError % 256)
    /\ call.res.msg.errorCode = call.prev.arg.attributeHandleInError \div 256

\* the opcode that each deserialize expects in the first byte
ExpectedOpcode ==
  [AttErrorRsp |-> AttOpcode.ErrorRsp,
   AttExchangeMtuReq |-> AttOpcode.ExchangeMtuReq,
   AttExchangeMtuRsp |-> AttOpcode.ExchangeMtuRsp,
   AttFindInformationReq |-> AttOpcode.FindInformationReq,
   AttFindInformationRsp |-> AttOpcode.FindInformationRsp]

\* the size rule of each PDU: 5, 3, 3 and 5 bytes; for the Find Information
\* Response at least 6 bytes, and whole entries of 2 + 2 or 2 + 16 bytes after
\* the two header bytes
ViolatesSizeRule(pdu, buffer) ==
  CASE pdu = "AttErrorRsp" -> Len(buffer) # 5
    [] pdu \in {"AttExchangeMtuReq", "AttExchangeMtuRsp"} -> Len(buffer) # 3
    [] pdu = "AttFindInformationReq" -> Len(buffer) # 5
    [] pdu = "AttFindInformationRsp" ->
         \/ Len(buffer) < 6
         \/ buffer[2] = 1 /\ (Len(buffer) - 2) % 4 # 0
         \/ buffer[2] = 2 /\ (Len(buffer) - 2) % 18 # 0

\* C12, as claimed: for every buffer, the empty one included, deserialize of
\* each of the five PDUs returns null and raises nothing when the first byte is
\* not the PDU's opcode or the length violates the PDU's size rule.
C12_MalformedYieldsNull ==
  \A pdu \in DOMAIN ExpectedOpcode :
    (/\ call.fn = pdu \o ".deserialize"
     /\ \/ Len(call.arg) = 0
        \/ call.arg[1] # ExpectedOpcode[pdu]
        \/ ViolatesSizeRule(pdu, call.arg))
      => (call.res.null /\ ~call.res.threw)

\* C13, as claimed: for every buffer b that AttFindInformationRsp.deserialize
\* accepts, serialize of the entries it returned yields the bytes of b, in the
\* 16-bit and in the 128-bit format.
C13_FindInformationRspInverse ==
  (/\ call.fn = "AttFindInformationRsp.serialize"
   /\ call.prev.fn = "AttFindInformationRsp.deserialize")
    => (~call.res.threw /\ call.res.buffer = call.prev.arg)

\* what serialize returns instead: the bytes the caller's buffer holds after
\* deserialize has reversed the UUIDs in it, when deserialize returned whole
\* UUIDs of one size; an exception otherwise
C13_FindInformationRspYieldsReversed ==
  (/\ call.fn = "AttFindInformationRsp.serialize"
   /\ call.prev.fn = "AttFindInformationRsp.deserialize")
    => IF getUuidSize(call.arg) = 0 THEN call.res.threw
       ELSE ~call.res.threw /\ call.res.buffer = call.prev.res.buffer

(* ---------------------------- AdvDataParser ---------------------------- *)

\* the members of the enum AdvDataType that parseField has a case for
AdvDataType ==
  [Flags |-> 1,
   IncompleteListOf16bitServiceClassUuids |-> 2,
   CompleteListOf16bitServiceClassUuids |-> 3,
   IncompleteListOf32bitServiceClassUuids |-> 4,
   CompleteListOf32bitServiceClassUuids |-> 5,
   IncompleteListOf128bitServiceClassUuids |-> 6,
   CompleteListOf128bitServiceClassUuids |-> 7,
   ShortenedLocalName |-> 8,
   CompleteLocalName |-> 9,
   TxPowerLevel |-> 10,
   ListOf16bitServiceSolicitationUuids |-> 20,
   ListOf128bitServiceSolicitationUuids |-> 21,
   ServiceData16bitUuid |-> 22,
   ListOf32bitServiceSolicitationUuids |-> 31,
   ServiceData32bitUuid |-> 32,
   ServiceData128bitUuid |-> 33,
   ManufacturerSpecificData |-> 255]

\* an optional property of AdvData is <<>> while it is undefined and <<v>>
\* once it holds v; const ad: AdvData = {}
EmptyAdvData ==
  [flags |-> <<>>, serviceUuids |-> <<>>, serviceSolicitationUuids |-> <<>>,
   localName |-> <<>>, shortenedLocalName |-> <<>>, completeLocalName |-> <<>>,
   txPowerLevel |-> <<>>, manufacturerData |-> <<>>, serviceData |-> <<>>]

RECURSIVE Hex(_)
\* buf.toString('hex'), the string as its sequence of hexadecimal digits
Hex(buf) ==
  IF buf = <<>> THEN <<>>
  ELSE <<buf[1] \div 16, buf[1] % 16>> \o Hex(Tail(buf))

\* buf.toString('utf8') of bytes below 0x80, the string as its code points
Utf8(buf) == buf

\* buf.slice(start, end): the bytes from 0-based start up to end, both clamped
\* to the end of the buffer
Slice(buf, start, end) ==
  SubSeq(buf, start + 1, IF end > Len(buf) THEN Len(buf) ELSE end)

\* the buffer after buf.slice(start, end).reverse(): the slice is a view, the
\* bytes are reversed in the buffer itself
ReverseIn(buf, start, end) ==
  LET stop == IF end > Len(buf) THEN Len(buf) ELSE end
  IN  [i \in 1..Len(buf) |->
         IF start < i /\ i <= stop THEN buf[start + stop + 1 - i] ELSE buf[i]]

\* the bytes of field.data: a field is a view of adBuffer from start to end
FieldData(buffer, field) == Slice(buffer, field.start, field.end)

RECURSIVE readFields(_, _)
\* the while loop of parse from offset o: the fields it pushes
readFields(adBuffer, o) ==
  IF o >= Len(adBuffer) THEN <<>>
  ELSE LET len == adBuffer[o + 1]
       IN  IF len = 0 \/ o + 1 >= Len(adBuffer) THEN readFields(adBuffer, o + 1)
           ELSE LET end == IF o + 2 + (len - 1) > Len(adBuffer) THEN Len(adBuffer)
                           ELSE o + 2 + (len - 1)
                IN  <<[type |-> adBuffer[o + 2], start |-> o + 2, end |-> end]>>
                      \o readFields(adBuffer, o + 2 + (len - 1))

\* list that grows by every uuid, seen before or not
pushUnique_always(list, uuid) ==
  <<Append(IF list = <<>> THEN <<>> ELSE list[1], uuid)>>

\* list = list ?? []; if (list.indexOf(uuid) === -1) list.push(uuid)
pushUnique(list, uuid) ==
  LET l == IF list = <<>> THEN <<>> ELSE list[1]
  IN  <<IF \E i \in 1..Len(l) : l[i] = uuid THEN l ELSE Append(l, uuid)>>

RECURSIVE uuidLoop(_, _, _, _, _)
\* for (j = 0; j < field.data.length; j += width): the list and the buffer
\* after the iterations from j on
uuidLoop(list, buffer, field, width, j) ==
  IF j >= field.end - field.start THEN [list |-> list, buffer |-> buffer]
  ELSE LET from == field.start + j
           to == IF from + width > field.end THEN field.end ELSE from + width
           reversed == ReverseIn(buffer, from, to)
           uuid == Hex(Slice(reversed, from, to))
       IN  uuidLoop(pushUnique(list, uuid), reversed, field, width, j + width)

\* a push to advData.serviceData
pushServiceData(st, field, width) ==
  LET to == IF field.start + width > field.end THEN field.end ELSE field.start + width
      reversed == ReverseIn(st.buffer, field.start, to)
      entry == [uuid |-> Hex(Slice(reversed, field.start, to)),
                data |-> Slice(reversed, to, field.end)]
      list == IF st.ad.serviceData = <<>> THEN <<>> ELSE st.ad.serviceData[1]
  IN  [st EXCEPT !.ad.serviceData = <<Append(list, entry)>>, !.buffer = reversed]

\* AdvDataParser.parseField on the parse state st = [threw, ad, buffer];
\* readInt8(0) and readUInt16LE(0) throw a RangeError when data is too short
parseField(st, field) ==
  LET T == AdvDataType
      data == FieldData(st.buffer, field)
      service(width) ==
        LET r == uuidLoop(st.ad.serviceUuids, st.buffer, field, width, 0)
        IN  [st EXCEPT !.ad.serviceUuids = r.list, !.buffer = r.buffer]
      solicitation(width) ==
        LET r == uuidLoop(st.ad.serviceSolicitationUuids, st.buffer, field, width, 0)
        IN  [st EXCEPT !.ad.serviceSolicitationUuids = r.list, !.buffer = r.buffer]
  IN  CASE field.type = T.Flags ->
             [st EXCEPT !.ad.flags = IF data = <<>> THEN <<>> ELSE <<data[1]>>]
        [] field.type \in {T.IncompleteListOf16bitServiceClassUuids,
                           T.CompleteListOf16bitServiceClassUuids} -> service(2)
        [] field.type \in {T.IncompleteListOf32bitServiceClassUuids,
                           T.CompleteListOf32bitServiceClassUuids} -> service(4)
        [] field.type \in {T.IncompleteListOf128bitServiceClassUuids,
                           T.CompleteListOf128bitServiceClassUuids} -> service(16)
        [] field.type = T.ShortenedLocalName ->
             [st EXCEPT !.ad.shortenedLocalName = <<Utf8(data)>>,
                        !.ad.localName = IF @ = <<>> \/ @ = << <<>> >>
                                         THEN <<Utf8(data)>> ELSE @]
        [] field.type = T.CompleteLocalName ->
             [st EXCEPT !.ad.completeLocalName = <<Utf8(data)>>,
                        !.ad.localName = <<Utf8(data)>>]
        [] field.type = T.TxPowerLevel ->
             IF data = <<>> THEN [st EXCEPT !.threw = TRUE]
             ELSE [st EXCEPT !.ad.txPowerLevel =
                               <<IF data[1] < 128 THEN data[1] ELSE data[1] - 256>>]
        [] field.type = T.ListOf16bitServiceSolicitationUuids -> solicitation(2)
        [] field.type = T.ListOf32bitServiceSolicitationUuids -> solicitation(4)
        [] field.type = T.ListOf128bitServiceSolicitationUuids -> solicitation(16)
        [] field.type = T.ServiceData16bitUuid -> pushServiceData(st, field, 2)
        [] field.type = T.ServiceData32bitUuid -> pushServiceData(st, field, 4)
        [] field.type = T.ServiceData128bitUuid -> pushServiceData(st, field, 16)
        [] field.type = T.ManufacturerSpecificData ->
             IF Len(data) < 2 THEN [st EXCEPT !.threw = TRUE]
             ELSE [st EXCEPT !.ad.manufacturerData =
                               <<[ident |-> readUIntLE(data, 0, 2),
                                  data |-> SliceFrom(data, 2)]>>]
        [] OTHER -> st

RECURSIVE parseFields(_, _)
\* for (const field of fields) this.parseField(ad, field), left by an exception
parseFields(st, fields) ==
  IF fields = <<>> \/ st.threw THEN st
  ELSE parseFields(parseField(st, fields[1]), Tail(fields))

\* AdvDataParser.parse; advReport.data is <<>> for null, else <<adBuffer>>
parse(advReport) ==
  IF advReport.data = <<>>
  THEN [threw |-> FALSE, ad |-> EmptyAdvData, buffer |-> <<>>]
  ELSE LET adBuffer == advReport.data[1]
       IN  parseFields([threw |-> FALSE, ad |-> EmptyAdvData, buffer |-> adBuffer],
                       readFields(adBuffer, 0))

(* ----------------- AdvDataParser.parse as a state machine -------------- *)

\* number of AD records in an advertising report
MaxAdRecords == 3

\* the AD records the reports are made of, each [len][type][data]:
\* flags; 16-bit service UUIDs 2800 2801, and 2801 twice; a 32-bit and a
\* 128-bit service UUID; 16-bit, 32-bit and 128-bit solicitation UUIDs; the
\* names "ab" (shortened), "abc" and "" (complete); a TX power level and one
\* without its value; a zero length byte; a name that declares four bytes and
\* has two; manufacturer data; service data
AdRecords ==
  { <<2, 1, 6>>,
    <<5, 3, 0, 40, 1, 40>>,
    <<5, 2, 1, 40, 1, 40>>,
    <<5, 5, 0, 40, 0, 0>>,
    <<17, 7>> \o Uuid128,
    <<3, 20, 0, 40>>,
    <<5, 31, 0, 40, 0, 0>>,
    <<17, 21>> \o Uuid128,
    <<3, 8, 97, 98>>,
    <<4, 9, 97, 98, 99>>,
    <<1, 9>>,
    <<2, 10, 127>>,
    <<1, 10>>,
    <<0>>,
    <<5, 9, 102, 111>>,
    <<4, 255, 89, 0, 1>>,
    <<4, 22, 0, 40, 9>> }

RECURSIVE Concat(_)
\* the bytes of a sequence of records
Concat(records) ==
  IF records = <<>> THEN <<>> ELSE records[1] \o Concat(Tail(records))

\* the reports handed to parse: data is null, or the bytes of up to
\* MaxAdRecords records; records remembers what data was made of
AdvReports ==
  {[data |-> <<>>, records |-> <<>>]}
    \cup {[data |-> <<Concat(rs)>>, records |-> rs] : rs \in SeqsUpTo(AdRecords, MaxAdRecords)}

InitAdv ==
  /\ InitHci
  /\ call \in {Input("LeExtAdvReport", r) : r \in AdvReports}

\* AdvDataParser.parse of a report the caller holds
Parse ==
  /\ call.fn = "input"
  /\ call.type = "LeExtAdvReport"
  /\ call' = Applied("AdvDataParser.parse", call.arg, parse(call.arg), call)
  /\ UNCHANGED hciVars

NextAdv == Parse

SpecAdv == InitAdv /\ [][NextAdv]_vars

\* C14, as claimed: for any input buffer AdvDataParser.parse returns an
\* AdvData value and raises no error, records whose value is shorter than
\* their type needs included.
C14_ParserTotal ==
  call.fn = "AdvDataParser.parse" => ~call.res.threw

RECURSIVE WithoutSkipped(_, _)
\* the bytes of adBuffer from offset o on without the records of declared
\* length 0 and without the record whose declared body (type and len - 1 value
\* bytes) extends beyond the end of the buffer
WithoutSkipped(adBuffer, o) ==
  IF o >= Len(adBuffer) THEN <<>>
  ELSE LET len == adBuffer[o + 1]
       IN  IF len = 0 THEN WithoutSkipped(adBuffer, o + 1)
           ELSE IF o + 1 + len > Len(adBuffer) THEN <<>>
           ELSE SubSeq(adBuffer, o + 1, o + 1 + len)
                  \o WithoutSkipped(adBuffer, o + 1 + len)

\* C15, as claimed: a record whose declared length is 0, or whose declared
\* body extends beyond the end of the buffer, contributes no field: parse
\* returns what it returns for the buffer without those records.
C15_SkipsZeroAndOverrun ==
  (/\ call.fn = "AdvDataParser.parse"
   /\ call.arg.data # <<>>
   /\ ~call.res.threw)
    => call.res.ad = parse([data |-> <<WithoutSkipped(call.arg.data[1], 0)>>]).ad

RECURSIVE Overruns(_, _)
\* from offset o on, adBuffer holds a record whose declared body extends
\* beyond the end of the buffer
Overruns(adBuffer, o) ==
  IF o >= Len(adBuffer) THEN FALSE
  ELSE LET len == adBuffer[o + 1]
       IN  IF len = 0 THEN Overruns(adBuffer, o + 1)
           ELSE IF o + 1 + len > Len(adBuffer) THEN TRUE
           ELSE Overruns(adBuffer, o + 1 + len)

\* the part of C15 the code meets: records of declared length 0 contribute
\* no field and parsing continues after them
C15_SkipsZeroLength ==
  (/\ call.fn = "AdvDataParser.parse"
   /\ call.arg.data # <<>>
   /\ ~call.res.threw
   /\ ~Overruns(call.arg.data[1], 0))
    => call.res.ad = parse([data |-> <<WithoutSkipped(call.arg.data[1], 0)>>]).ad

\* a record that is whole: a type byte and the len - 1 value bytes it declares
WholeRecord(r) == Len(r) >= 2 /\ r[1] = Len(r) - 1

\* the UUID width of the service-class types 0x02..0x07, 0 for other types
ServiceWidth ==
  [type \in 0..MaxUInt8 |->
     CASE type \in {2, 3} -> 2 [] type \in {4, 5} -> 4 [] type \in {6, 7} -> 16
       [] OTHER -> 0]

\* the UUID width of the solicitation types 0x14, 0x1F, 0x15, 0 for others
SolicitationWidth ==
  [type \in 0..MaxUInt8 |->
     CASE type = 20 -> 2 [] type = 31 -> 4 [] type = 21 -> 16 [] OTHER -> 0]

RECURSIVE UuidStrings(_, _)
\* the UUID strings of a record value: each width bytes, last byte first, in hex
UuidStrings(value, width) ==
  IF value = <<>> THEN <<>>
  ELSE LET n == IF width > Len(value) THEN Len(value) ELSE width
       IN  <<Hex(Reverse(SubSeq(value, 1, n)))>>
             \o UuidStrings(SubSeq(value, n + 1, Len(value)), width)

RECURSIVE Occurrences(_, _)
\* the UUID strings of the records whose type has a width, in buffer order
Occurrences(records, width) ==
  IF records = <<>> THEN <<>>
  ELSE (IF width[records[1][2]] = 0 THEN <<>>
        ELSE UuidStrings(SubSeq(records[1], 3, Len(records[1])), width[records[1][2]]))
         \o Occurrences(Tail(records), width)

\* the elements of s, each where it occurs first
FirstSeen(s) ==
  LET F[i \in 0..Len(s)] ==
        IF i = 0 THEN <<>>
        ELSE IF \E j \in 1..(i - 1) : s[j] = s[i] THEN F[i - 1]
        ELSE Append(F[i - 1], s[i])
  IN  F[Len(s)]

\* a list property of AdvData holds the strings of s once each in the order of
\* first occurrence, and is undefined when s is empty
HoldsFirstSeen(list, s) ==
  IF s = <<>> THEN list = <<>>
  ELSE /\ list = <<FirstSeen(s)>>
       /\ \A i, j \in 1..Len(list[1]) : i # j => list[1][i] # list[1][j]

\* C16: after parsing any sequence of whole records, serviceUuids holds each
\* UUID string of the service-class records (types 0x02..0x07) at most once
\* and in the order of first occurrence in the buffer, whether the repeats are
\* inside one record or across records; serviceSolicitationUuids does the same
\* for the types 0x14, 0x15, 0x1F; neither list holds a UUID of the other kind
\* of record.
C16_UuidListsDeduplicated ==
  (/\ call.fn = "AdvDataParser.parse"
   /\ \A i \in 1..Len(call.arg.records) : WholeRecord(call.arg.records[i])
   /\ ~call.res.threw)
    => /\ HoldsFirstSeen(call.res.ad.serviceUuids,
                         Occurrences(call.arg.records, ServiceWidth))
       /\ HoldsFirstSeen(call.res.ad.serviceSolicitationUuids,
                         Occurrences(call.arg.records, SolicitationWidth))

\* 2800 2801, then 2801 twice in one record, then a solicitation for 2800
C16_Witness ==
  /\ call.fn = "AdvDataParser.parse"
  /\ call.arg.records = << <<5, 3, 0, 40, 1, 40>>, <<5, 2, 1, 40, 1, 40>>, <<3, 20, 0, 40>> >>
  /\ call.res.ad.serviceUuids = << << <<2, 8, 0, 0>>, <<2, 8, 0, 1>> >> >>
  /\ call.res.ad.serviceSolicitationUuids = << << <<2, 8, 0, 0>> >> >>

\* C17, as claimed: after parsing any sequence of whole Shortened (0x08) and
\* Complete (0x09) Local Name records, localName is the complete name if a
\* Complete Local Name record was processed (the last one's, if several), and
\* a shortened name otherwise.
C17_LocalNameResolution ==
  (/\ call.fn = "AdvDataParser.parse"
   /\ call.arg.records # <<>>
   /\ \A i \in 1..Len(call.arg.records) :
        WholeRecord(call.arg.records[i]) /\ call.arg.records[i][2] \in {8, 9})
    => LET records == call.arg.records
           name(i) == SubSeq(records[i], 3, Len(records[i]))
           completes == {i \in 1..Len(records) : records[i][2] = 9}
       IN  /\ ~call.res.threw
           /\ completes # {} =>
                \E i \in completes :
                  /\ \A j \in completes : j <= i
                  /\ call.res.ad.completeLocalName = <<name(i)>>
                  /\ call.res.ad.localName = <<name(i)>>
           /\ completes = {} =>
                \E i \in 1..Len(records) : call.res.ad.localName = <<name(i)>>

\* what the code does: localName is the last complete name unless that name
\* is empty and a shortened name follows it, which then replaces it
C17_EmptyCompleteNameGivesWay ==
  (/\ call.fn = "AdvDataParser.parse"
   /\ call.arg.records # <<>>
   /\ \A i \in 1..Len(call.arg.records) :
        WholeRecord(call.arg.records[i]) /\ call.arg.records[i][2] \in {8, 9})
    => LET records == call.arg.records
           name(i) == SubSeq(records[i], 3, Len(records[i]))
           completes == {i \in 1..Len(records) : records[i][2] = 9}
       IN  \A i \in completes :
             (\A j \in completes : j <= i) =>
               \/ call.res.ad.localName = <<name(i)>>
               \/ /\ name(i) = <<>>
                  /\ \E j \in (i + 1)..Len(records) :
                       records[j][2] = 8 /\ call.res.ad.localName = <<name(j)>>

(* ------------------------ HCI parameter codecs ------------------------- *)

\* what a codec call leaves behind: an exception named err, or the value it
\* returns; args are the caller's buffers as the call leaves them
CodecThrew(err, args) == [threw |-> TRUE, err |-> err, value |-> <<>>, args |-> args]
CodecValue(value, args) == [threw |-> FALSE, err |-> "", value |-> value, args |-> args]

\* LeReadChannelMap.outParams; params is <<>> for undefined, else <<buffer>>;
\* the 40-bit number readUIntLE(2, 5) is kept as its five little-endian bytes
LeReadChannelMap_outParams(params) ==
  IF params = <<>> \/ Len(params[1]) < 7
  THEN CodecThrew(makeError("InvalidPayloadSize").name, params)
  ELSE CodecValue(Slice(params[1], 2, 7), params)

\* LeEncrypt.outParams: params.reverse() reverses the caller's buffer and
\* returns it
LeEncrypt_outParams(params) ==
  IF params = <<>> THEN CodecThrew(makeError("InvalidPayloadSize").name, params)
  ELSE CodecValue(Reverse(params[1]), <<Reverse(params[1])>>)

\* LeRand.outParams
LeRand_outParams(params) ==
  IF params = <<>> THEN CodecThrew(makeError("InvalidPayloadSize").name, params)
  ELSE CodecValue(Reverse(params[1]), <<Reverse(params[1])>>)

\* Hci.readBdAddr from the return parameters of the Command Complete on; the
\* 48-bit number readUIntLE(0, 6) is kept as its six little-endian bytes
readBdAddr(params) ==
  IF Len(params[1]) < 6 THEN CodecThrew(makeError("InvalidPayloadSize").name, params)
  ELSE CodecValue(Slice(params[1], 0, 6), params)

\* Hci.leReadBufferSize from the return parameters on
leReadBufferSize(params) ==
  IF Len(params[1]) < 3 THEN CodecThrew(makeError("InvalidPayloadSize").name, params)
  ELSE CodecValue([leAclDataPacketLength |-> ReadUInt16LE(params[1], 0),
                   totalNumLeAclDataPackets |-> params[1][3]], params)

\* Hci.leReadBufferSizeV2 from the return parameters on
leReadBufferSizeV2(params) ==
  IF Len(params[1]) < 6 THEN CodecThrew(makeError("InvalidPayloadSize").name, params)
  ELSE CodecValue([leAclDataPacketLength |-> ReadUInt16LE(params[1], 0),
                   totalNumLeAclDataPackets |-> params[1][3],
                   isoDataPacketLength |-> ReadUInt16LE(params[1], 3),
                   totalNumIsoDataPackets |-> params[1][6]], params)

\* the decoder named fn applied to params
outParams(fn, params) ==
  CASE fn = "LeReadChannelMap.outParams" -> LeReadChannelMap_outParams(params)
    [] fn = "LeEncrypt.outParams" -> LeEncrypt_outParams(params)
    [] fn = "LeRand.outParams" -> LeRand_outParams(params)
    [] fn = "Hci.readBdAddr" -> readBdAddr(params)
    [] fn = "Hci.leReadBufferSize" -> leReadBufferSize(params)
    [] fn = "Hci.leReadBufferSizeV2" -> leReadBufferSizeV2(params)

\* LeEncrypt.inParams: key.reverse() and plaintextData.reverse() reverse the
\* caller's buffers, then the reversed bytes are copied into the payload
LeEncrypt_inParams(args) ==
  IF Len(args.key) # 16 \/ Len(args.plaintextData) # 16
  THEN CodecThrew("InvalidCommandParameter", args)
  ELSE CodecValue(Reverse(args.key) \o Reverse(args.plaintextData),
                  [key |-> Reverse(args.key),
                   plaintextData |-> Reverse(args.plaintextData)])

\* LeEnableEncryption.inParams; writeUIntLE throws a RangeError on a value
\* that does not fit, the second one after randomNumber has been reversed
LeEnableEncryption_inParams(args) ==
  LET params == args.params
  IN  IF Len(params.randomNumber) # 8 \/ Len(params.longTermKey) # 16
      THEN CodecThrew("InvalidCommandParameter", args)
      ELSE IF args.connHandle > MaxUInt16 THEN CodecThrew(RangeError.name, args)
      ELSE IF params.encryptedDiversifier > MaxUInt16
      THEN CodecThrew(RangeError.name,
                      [args EXCEPT !.params.randomNumber = Reverse(@)])
      ELSE CodecValue(uintLE(args.connHandle, 2) \o Reverse(params.randomNumber)
                        \o uintLE(params.encryptedDiversifier, 2)
                        \o Reverse(params.longTermKey),
                      [args EXCEPT !.params.randomNumber = Reverse(@),
                                   !.params.longTermKey = Reverse(@)])

\* LeLongTermKeyRequestReply.inParams
LeLongTermKeyRequestReply_inParams(args) ==
  IF Len(args.longTermKey) # 16 THEN CodecThrew("InvalidCommandParameter", args)
  ELSE IF args.connHandle > MaxUInt16 THEN CodecThrew(RangeError.name, args)
  ELSE CodecValue(uintLE(args.connHandle, 2) \o Reverse(args.longTermKey),
                  [args EXCEPT !.longTermKey = Reverse(@)])

\* the factors 1.25, 10 and 0.625 of LeConnectionUpdate.inParams, as fractions
Ms1_25 == [num |-> 5, den |-> 4]
Ms10 == [num |-> 10, den |-> 1]
Ms0_625 == [num |-> 5, den |-> 8]

\* LeConnectionUpdate.msToValue: Math.round(ms / factor), which rounds a half
\* upwards, for a whole number of milliseconds
msToValue(ms, factor) == (2 * ms * factor.den + factor.num) \div (2 * factor.num)

\* payload.writeUIntLE(value, o, 2) throws a RangeError on these values
fitsUInt16(value) == value \in 0..MaxUInt16

\* LeConnectionUpdate.inParams with params.connectionHandle written into the
\* first field
LeConnectionUpdate_inParams_writesHandle(args) ==
  LET fields == <<args.connectionHandle,
                  msToValue(args.connectionIntervalMinMs, Ms1_25),
                  msToValue(args.connectionIntervalMaxMs, Ms1_25),
                  args.connectionLatency,
                  msToValue(args.supervisionTimeoutMs, Ms10),
                  msToValue(args.minCeLengthMs, Ms0_625),
                  msToValue(args.maxCeLengthMs, Ms0_625)>>
  IN  IF \E i \in 1..7 : ~fitsUInt16(fields[i]) THEN CodecThrew(RangeError.name, args)
      ELSE CodecValue(uintLE(fields[1], 2) \o uintLE(fields[2], 2) \o uintLE(fields[3], 2)
                        \o uintLE(fields[4], 2) \o uintLE(fields[5], 2)
                        \o uintLE(fields[6], 2) \o uintLE(fields[7], 2), args)

\* LeConnectionUpdate.inParams: seven writeUIntLE(value, o, 2) in this order,
\* the first and the fourth of params.connectionLatency
LeConnectionUpdate_inParams(args) ==
  LET fields == <<args.connectionLatency,
                  msToValue(args.connectionIntervalMinMs, Ms1_25),
                  msToValue(args.connectionIntervalMaxMs, Ms1_25),
                  args.connectionLatency,
                  msToValue(args.supervisionTimeoutMs, Ms10),
                  msToValue(args.minCeLengthMs, Ms0_625),
                  msToValue(args.maxCeLengthMs, Ms0_625)>>
  IN  IF \E i \in 1..7 : ~fitsUInt16(fields[i]) THEN CodecThrew(RangeError.name, args)
      ELSE CodecValue(uintLE(fields[1], 2) \o uintLE(fields[2], 2) \o uintLE(fields[3], 2)
                        \o uintLE(fields[4], 2) \o uintLE(fields[5], 2)
                        \o uintLE(fields[6], 2) \o uintLE(fields[7], 2), args)

\* LeSetScanEnabled.inParams(enable, filterDuplicates?), an optional argument
\* being <<>> or <<v>>: both payload.writeUInt8(v) write at the default offset
\* 0, the second over the first, and byte 1 keeps what Buffer.allocUnsafe(2)
\* returned, which is unsafe
LeSetScanEnabled_inParams(args, unsafe) ==
  LET enable == IF args.enable THEN 1 ELSE 0
      filterDuplicates == IF args.filterDuplicates = <<TRUE>> THEN 1 ELSE 0
      first == [unsafe EXCEPT ![1] = enable]
  IN  CodecValue([first EXCEPT ![1] = filterDuplicates], args)

\* the encoder of class applied to args
inParams(class, args) ==
  CASE class = "LeEncrypt" -> LeEncrypt_inParams(args)
    [] class = "LeEnableEncryption" -> LeEnableEncryption_inParams(args)
    [] class = "LeLongTermKeyRequestReply" -> LeLongTermKeyRequestReply_inParams(args)
    [] class = "LeConnectionUpdate" -> LeConnectionUpdate_inParams(args)

(* ------------------- the codecs as a state machine --------------------- *)

\* length of the return parameters handed to the decoders
MaxReturnBytes == 17

\* a buffer of n equal bytes, which is its own reverse
Same(n) == [i \in 1..n |-> 7]

\* return parameters of every length up to MaxReturnBytes, and none
ReturnParameters == {<<>>} \cup {<<Bytes(n)>> : n \in 0..MaxReturnBytes}

\* the arguments handed to the encoders
EncoderArgs ==
  [LeEncrypt |->
     [key : {Bytes(16), Same(16), Bytes(15)}, plaintextData : {Bytes(16), Same(16)}],
   LeEnableEncryption |->
     [connHandle : {1},
      params : [randomNumber : {Bytes(8), Bytes(7)},
                encryptedDiversifier : {4660, 65536},
                longTermKey : {Bytes(16), Same(16)}]],
   LeLongTermKeyRequestReply |->
     [connHandle : {1}, longTermKey : {Bytes(16), Same(16), Bytes(17)}],
   LeConnectionUpdate |->
     [connectionHandle : {1, 64, 65536},
      connectionIntervalMinMs : {30},
      connectionIntervalMaxMs : {50, 81921},
      connectionLatency : {0, 3},
      supervisionTimeoutMs : {5000, 4005},
      minCeLengthMs : {0, 3},
      maxCeLengthMs : {20}]]

\* the arguments handed to LeSetScanEnabled.inParams
ScanEnabledArgs == [enable : BOOLEAN, filterDuplicates : {<<>>, <<TRUE>>, <<FALSE>>}]

\* what Buffer.allocUnsafe(n) can return: n bytes of memory used before
AllocUnsafe(n) == [1..n -> {0, 1, 255}]

\* the decoders of HciLeController and of Hci; those of Hci are handed the
\* returnParameters of an event, which is never undefined
Decoders ==
  {"LeReadChannelMap.outParams", "LeEncrypt.outParams", "LeRand.outParams",
   "Hci.readBdAddr", "Hci.leReadBufferSize", "Hci.leReadBufferSizeV2"}

InitCodec ==
  /\ InitHci
  /\ call \in {Input("ReturnParameters", p) : p \in ReturnParameters}
              \cup UNION {{Input(class, a) : a \in EncoderArgs[class]} :
                            class \in DOMAIN EncoderArgs}
              \cup {Input("LeSetScanEnabled", a) : a \in ScanEnabledArgs}

\* a decoder is handed return parameters
Decode ==
  /\ call.fn = "input"
  /\ call.type = "ReturnParameters"
  /\ \E fn \in Decoders :
       /\ call.arg = <<>> => fn \in {"LeReadChannelMap.outParams",
                                     "LeEncrypt.outParams", "LeRand.outParams"}
       /\ call' = Applied(fn, call.arg, outParams(fn, call.arg), call)
  /\ UNCHANGED hciVars

\* an encoder is handed buffers the caller holds
Encode ==
  /\ call.fn = "input"
  /\ call.type \in DOMAIN EncoderArgs
  /\ call' = Applied(call.type \o ".inParams", call.arg,
                     inParams(call.type, call.arg), call)
  /\ UNCHANGED hciVars

\* the caller hands the same buffers to the encoder a second time
EncodeAgain ==
  /\ call.type \in DOMAIN EncoderArgs
  /\ call.fn = call.type \o ".inParams"
  /\ call.prev.fn = "input"
  /\ call' = Applied(call.fn, call.res.args, inParams(call.type, call.res.args), call)
  /\ UNCHANGED hciVars

\* LeSetScanEnabled.inParams is called, on whatever memory allocUnsafe returns
EncodeScanEnabled ==
  /\ call.fn = "input"
  /\ call.type = "LeSetScanEnabled"
  /\ \E unsafe \in AllocUnsafe(2) :
       call' = Applied("LeSetScanEnabled.inParams", call.arg,
                       LeSetScanEnabled_inParams(call.arg, unsafe), call)
  /\ UNCHANGED hciVars

NextCodec == Decode \/ Encode \/ EncodeAgain \/ EncodeScanEnabled

SpecCodec == InitCodec /\ [][NextCodec]_vars

\* the fewest bytes the layout of each decoder needs
RequiredBytes ==
  [LeReadChannelMap_outParams |-> 7, LeEncrypt_outParams |-> 16,
   LeRand_outParams |-> 8, Hci_readBdAddr |-> 6, Hci_leReadBufferSize |-> 3,
   Hci_leReadBufferSizeV2 |-> 6]

\* handed too few bytes, or none, the decoder fn failed with InvalidPayloadSize
FailsWhenShort(fn, required) ==
  (/\ call.fn = fn
   /\ call.type = "ReturnParameters"
   /\ call.arg = <<>> \/ Len(call.arg[1]) < required)
    => (call.res.threw /\ call.res.err = "InvalidPayloadSize")

\* C18, as claimed: every return-parameter decoder fails with
\* InvalidPayloadSize when given fewer bytes than its layout requires:
\* LeEncrypt.outParams for fewer than 16, Hci.readBdAddr, leReadBufferSize and
\* leReadBufferSizeV2 for fewer than 6, 3 and 6, LeRand.outParams for fewer
\* than 8, LeReadChannelMap.outParams for fewer than 7.
C18_DecodersCheckLength ==
  /\ FailsWhenShort("LeEncrypt.outParams", RequiredBytes.LeEncrypt_outParams)
  /\ FailsWhenShort("LeRand.outParams", RequiredBytes.LeRand_outParams)
  /\ FailsWhenShort("LeReadChannelMap.outParams", RequiredBytes.LeReadChannelMap_outParams)
  /\ FailsWhenShort("Hci.readBdAddr", RequiredBytes.Hci_readBdAddr)
  /\ FailsWhenShort("Hci.leReadBufferSize", RequiredBytes.Hci_leReadBufferSize)
  /\ FailsWhenShort("Hci.leReadBufferSizeV2", RequiredBytes.Hci_leReadBufferSizeV2)

\* the part of C18 the code meets: the decoders of Hci and
\* LeReadChannelMap.outParams fail on short input, and LeEncrypt.outParams and
\* LeRand.outParams fail when they are handed no buffer at all
C18_DecodersThatCheckLength ==
  /\ FailsWhenShort("LeReadChannelMap.outParams", RequiredBytes.LeReadChannelMap_outParams)
  /\ FailsWhenShort("Hci.readBdAddr", RequiredBytes.Hci_readBdAddr)
  /\ FailsWhenShort("Hci.leReadBufferSize", RequiredBytes.Hci_leReadBufferSize)
  /\ FailsWhenShort("Hci.leReadBufferSizeV2", RequiredBytes.Hci_leReadBufferSizeV2)
  /\ FailsWhenShort("LeEncrypt.outParams", 0)
  /\ FailsWhenShort("LeRand.outParams", 0)

\* C19, as claimed: an encoder call leaves the caller's argument buffers
\* unchanged, and LeEncrypt.inParams, LeEnableEncryption.inParams and
\* LeLongTermKeyRequestReply.inParams return the same bytes when they are
\* called a second time with the same buffers.
C19_EncodersPure ==
  (/\ call.type \in DOMAIN EncoderArgs
   /\ call.fn = call.type \o ".inParams")
    => /\ call.res.args = call.arg
       /\ call.prev.fn = call.fn =>
            /\ call.res.threw = call.prev.res.threw
            /\ call.res.value = call.prev.res.value

\* what the code does: the second call returns the bytes of the first with
\* every key, plaintext and random number in them reversed once more, which
\* are the bytes the caller had put into the buffers
C19_SecondCallUndoesReversal ==
  (/\ call.type = "LeEncrypt"
   /\ call.fn = "LeEncrypt.inParams"
   /\ call.prev.fn = call.fn
   /\ ~call.res.threw)
    => /\ call.res.value = call.prev.arg.key \o call.prev.arg.plaintextData
       /\ call.prev.res.value =
            Reverse(call.prev.arg.key) \o Reverse(call.prev.arg.plaintextData)
       /\ call.res.args = call.prev.arg

(* ------------------------------ liveness ------------------------------- *)

\* number of events the transport delivers in a behaviour with a fair timer
MaxLiveEvents == 1

LiveNext == SendAny \/ (nEvents < MaxLiveEvents /\ OnDataAny) \/ TimeoutAny

\* setTimeout: a timer that stays armed fires in the end
LiveSpec == Init /\ [][LiveNext]_vars /\ \A n \in CallIds : WF_vars(Timeout(n))

\* the caller of call n of send has been resumed
Settled(n) == promise[n].st \in {"resolved", "rejected"}

\* call n of send was settled by Busy, by a Command Complete of its opcode
\* (the event when its status is 0, an HciError with the status otherwise) or
\* by Timeout
SettledAsClaimed(n) ==
  \/ /\ promise[n].st = "rejected" /\ promise[n].err = "Busy"
     /\ n \notin sentIds /\ completedBy[n] = "none"
  \/ /\ promise[n].st = "resolved" /\ completedBy[n] = "event"
     /\ promise[n].evt.opcode = submitted[n] /\ promise[n].evt.status = Success
  \/ /\ promise[n].st = "rejected" /\ promise[n].err = "HciError"
     /\ promise[n].code # Success /\ completedBy[n] = "event"
  \/ /\ promise[n].st = "rejected" /\ promise[n].err = "Timeout"
     /\ completedBy[n] = "timeout"

\* call n of send was settled by the error that buildBuffer threw before, or
\* the send callback on, being handed the packet
SettledByThrow(n) ==
  /\ promise[n].st = "rejected"
  /\ \/ promise[n].err = RangeError.name /\ n \notin sentIds
     \/ promise[n].err = TransportError.name /\ n \in sentIds

\* every submission has a promise, and none has one before it is submitted
EverySubmissionHasPromise ==
  \A n \in CallIds : (n <= Len(submitted)) = (promise[n].st # "none")

\* once a call of send has been settled, no step changes its outcome
NeverSettledAgain ==
  [][\A n \in CallIds : Settled(n) => promise'[n] = promise[n]]_vars

\* a caller that is awaiting is resumed in the end
EventuallySettled ==
  \A n \in CallIds : (promise[n].st = "awaiting") ~> Settled(n)

\* C20, as claimed: every call of Hci.send is eventually settled, the timer
\* firing in the end, by exactly one of Busy, the matching Command Complete
\* (result or HciError) or Timeout, and once it has been settled no later
\* event or timer expiry settles it again or changes its outcome.
C20_ResumedExactlyOnceAsClaimed ==
  /\ [](EverySubmissionHasPromise
        /\ \A n \in CallIds : Settled(n) => SettledAsClaimed(n))
  /\ NeverSettledAgain
  /\ EventuallySettled

\* C20, amended: the outcomes are those three and the error thrown while the
\* packet is built or handed to the transport.
C20_ResumedExactlyOnce ==
  /\ [](EverySubmissionHasPromise
        /\ \A n \in CallIds : Settled(n) => (SettledAsClaimed(n) \/ SettledByThrow(n)))
  /\ NeverSettledAgain
  /\ EventuallySettled

\* the send callback threw, the caller was rejected with its error, and the
\* timer that was left armed has fired since without changing the outcome
C20_Witness ==
  /\ last.op = "timeout"
  /\ promise[last.id] = Rejected(TransportError)
  /\ completedBy[last.id] = "timeout"
  /\ \E m \in CallIds : m # last.id /\ Settled(m) /\ SettledAsClaimed(m)

(* ------------------- the slot as the callers meet it -------------------- *)

\* the last operation resumed the caller of call n of send with a successful
\* completion, an HciError or a Timeout
ResumedByCompletion(n) ==
  /\ last.pre.promise[n].st \in {"none", "awaiting"}
  /\ \/ promise[n].st = "resolved"
     \/ promise[n].st = "rejected" /\ promise[n].err \in {"HciError", "Timeout"}

\* every call of send before the last operation had resumed its caller
AllResumedBefore ==
  \A m \in 1..(last.id - 1) : last.pre.promise[m].st \in {"resolved", "rejected"}

\* C21, as claimed: the pending slot is empty whenever a caller is resumed by a
\* successful completion, an HciError or a Timeout, and a caller that submits
\* each command only after the previous one has resumed it is never rejected
\* with Busy.
C21_SequentialCallerNeverBusy ==
  /\ \A n \in CallIds : ResumedByCompletion(n) => onCmdComplete = 0
  /\ (last.op = "send" /\ AllResumedBefore) => promise[last.id].err # "Busy"

\* C21, the part that holds: the pending slot is empty and the timer of the
\* command cancelled whenever a caller is resumed by a successful completion,
\* an HciError or a Timeout.
C21_SlotFreeAtResumption ==
  \A n \in CallIds : ResumedByCompletion(n) => (onCmdComplete = 0 /\ n \notin timers)

\* a caller resumed by the error its command threw submits the next command
\* and is rejected with Busy
C21_BusyAfterThrow ==
  /\ last.op = "send"
  /\ last.id > 1
  /\ AllResumedBefore
  /\ last.pre.promise[last.id - 1].err \in {"TransportError", "RangeError"}
  /\ promise[last.id].err = "Busy"

\* C22: the pending state is established before the packet is handed to the
\* transport: a send callback that only returns leaves the slot occupied by
\* the call, the command's opcode pending and the timer armed, and a matching
\* Command Complete delivered from inside the send callback resumes the caller
\* and leaves the engine idle.
C22_PendingBeforeHandOver ==
  /\ (last.op = "send" /\ last.transport = "return" /\ last.id \in sentIds)
       => /\ onCmdComplete = last.id
          /\ cmdOpcode = last.cmd.opcode
          /\ last.id \in timers
          /\ promise[last.id] = Awaiting
  /\ (/\ last.op = "send"
      /\ last.transport = "sync"
      /\ IsCmdComplete(last.data)
      /\ EvtOpcode(last.data) = last.cmd.opcode)
       => /\ promise[last.id] =
               (IF EvtStatus(last.data) = Success
                THEN Resolved([numHciPackets |-> last.data[3],
                               opcode |-> EvtOpcode(last.data),
                               status |-> EvtStatus(last.data),
                               returnParameters |-> EvtReturnParameters(last.data)])
                ELSE Rejected(makeHciError(EvtStatus(last.data))))
          /\ completedBy[last.id] = "event"
          /\ onCmdComplete = 0
          /\ timers = {}

\* the send callback delivered the matching Command Complete before it
\* returned, and the caller was resumed with the event
C22_Witness ==
  /\ last.op = "send"
  /\ last.transport = "sync"
  /\ last.id \in sentIds
  /\ EvtOpcode(last.data) = last.cmd.opcode
  /\ promise[last.id].st = "resolved"
  /\ onCmdComplete = 0

\* data fails the header validation of onData: it has no length byte, or its
\* length byte differs from the number of bytes after the header
HeaderInvalid(data) == Len(data) < 2 \/ data[2] # Len(data) - 2

\* C23, as claimed: every incoming event that fails header validation, having
\* fewer than 2 bytes or a declared length that differs from the number of
\* trailing bytes, is dropped and emits one 'parser-error'.
C23_InvalidHeaderEmitsParserError ==
  (last.op = "onData" /\ HeaderInvalid(last.data))
    => (EngineUntouched /\ emitted = last.pre.emitted + 1)

\* C23, the part that holds: every such event is dropped, and one with at
\* least 2 bytes emits one 'parser-error'.
C23_InvalidHeaderDropped ==
  (last.op = "onData" /\ HeaderInvalid(last.data))
    => /\ EngineUntouched
       /\ emitted = last.pre.emitted + (IF Len(last.data) < 2 THEN 0 ELSE 1)

\* an event of fewer than 2 bytes arrived and nothing was emitted
C23_ShortEventSilent ==
  /\ last.op = "onData"
  /\ Len(last.data) < 2
  /\ emitted = last.pre.emitted

(* ------------------ the Find Information Response, again ---------------- *)

\* bytes of one entry of a Find Information Response: the handle and the UUID
EntryStride(format) == 2 + uuidFormatToSize[format]

\* the buffers the Find Information Response is specified to accept
WholeEntries(buffer) ==
  /\ Len(buffer) >= 6
  /\ buffer[1] = AttOpcode.FindInformationRsp
  /\ buffer[2] \in {1, 2}
  /\ (Len(buffer) - 2) % EntryStride(buffer[2]) = 0

\* C24, as claimed: AttFindInformationRsp.deserialize accepts a buffer exactly
\* when its first byte is 0x05, it has at least 6 bytes, its format byte is 1
\* or 2 and the bytes after the header are whole entries of 4 or 18 bytes; it
\* then returns one entry per stride, each with a 2-byte handle and a UUID of
\* 2 or 16 bytes; every other buffer yields null.
C24_AcceptsExactlyWholeEntries ==
  call.fn = "AttFindInformationRsp.deserialize" =>
    IF WholeEntries(call.arg)
    THEN /\ ~call.res.threw /\ ~call.res.null
         /\ Len(call.res.msg) = (Len(call.arg) - 2) \div EntryStride(call.arg[2])
         /\ \A i \in 1..Len(call.res.msg) :
              /\ call.res.msg[i].handle \in 0..MaxUInt16
              /\ Len(call.res.msg[i].uuid) = uuidFormatToSize[call.arg[2]]
    ELSE call.res.null /\ ~call.res.threw

\* C24, what the code accepts: the bytes after the header are measured in
\* UUIDs of 2 or 16 bytes, not in entries of 4 or 18, so a format-1 buffer
\* ending in half an entry is accepted and a format-2 buffer of whole entries
\* is accepted only when their bytes happen to be a multiple of 16.
C24_AcceptsByUuidSize ==
  (call.fn = "AttFindInformationRsp.deserialize" /\ Len(call.arg) > 0)
    => /\ ~call.res.threw
       /\ ~call.res.null <=>
            /\ Len(call.arg) >= 6
            /\ call.arg[1] = AttOpcode.FindInformationRsp
            /\ call.arg[2] \in {1, 2}
            /\ (Len(call.arg) - 2) % uuidFormatToSize[call.arg[2]] = 0

\* a buffer whose last entry is cut short was accepted, and the entry returned
\* with a UUID shorter than its format
C24_AcceptsCutEntry ==
  /\ call.fn = "AttFindInformationRsp.deserialize"
  /\ Len(call.arg) >= 6
  /\ ~WholeEntries(call.arg)
  /\ ~call.res.threw /\ ~call.res.null
  /\ \E i \in 1..Len(call.res.msg) :
       Len(call.res.msg[i].uuid) < uuidFormatToSize[call.arg[2]]

(* ---------------------- LeConnectionUpdate.inParams -------------------- *)

\* ms in units of num / den milliseconds, to the nearest unit, a half upwards
InUnits(ms, num, den) ==
  CHOOSE v \in 0..(MaxUInt16 + 1) :
    /\ (2 * v - 1) * num <= 2 * ms * den
    /\ 2 * ms * den < (2 * v + 1) * num

\* a 16-bit value, low byte first
LittleEndian16(v) == <<v % 256, v \div 256>>

\* C25: LeConnectionUpdate.inParams writes connectionLatency into the first
\* 2-byte field and into the latency field; its 14 bytes are the latency, the
\* minimum and maximum interval in units of 1.25 ms, the latency, the
\* supervision timeout in units of 10 ms and the minimum and maximum CE length
\* in units of 0.625 ms, all little-endian, and are the same for every value
\* of params.connectionHandle.
C25_ConnectionUpdateIgnoresHandle ==
  (call.type = "LeConnectionUpdate" /\ call.fn = "LeConnectionUpdate.inParams"
   /\ ~call.res.threw)
    => /\ Len(call.res.value) = 14
       /\ call.res.value =
            LittleEndian16(call.arg.connectionLatency)
              \o LittleEndian16(InUnits(call.arg.connectionIntervalMinMs, 5, 4))
              \o LittleEndian16(InUnits(call.arg.connectionIntervalMaxMs, 5, 4))
              \o LittleEndian16(call.arg.connectionLatency)
              \o LittleEndian16(InUnits(call.arg.supervisionTimeoutMs, 10, 1))
              \o LittleEndian16(InUnits(call.arg.minCeLengthMs, 5, 8))
              \o LittleEndian16(InUnits(call.arg.maxCeLengthMs, 5, 8))
       /\ \A handle \in EncoderArgs.LeConnectionUpdate :
            (\A f \in DOMAIN handle :
               f # "connectionHandle" => handle[f] = call.arg[f])
              => inParams(call.type, handle) = [call.res EXCEPT !.args = handle]

\* a connection update was encoded for a handle that differs from the latency,
\* and the first field holds the latency
C25_Witness ==
  /\ call.type = "LeConnectionUpdate"
  /\ call.fn = "LeConnectionUpdate.inParams"
  /\ ~call.res.threw
  /\ call.arg.connectionHandle # call.arg.connectionLatency
  /\ call.arg.connectionLatency # 0
  /\ SubSeq(call.res.value, 1, 2) = LittleEndian16(call.arg.connectionLatency)
  /\ SubSeq(call.res.value, 9, 10) = <<145, 1>>

(* ------------------ rejected submissions and timers -------------------- *)

\* the last operation was a call of send that was rejected with Busy
RejectedBusy == last.op = "send" /\ promise[last.id] = Rejected(makeError("Busy"))

\* C26: a submission rejected with Busy does not invoke the send callback,
\* leaves the pending slot, the pending opcode, the timers and every other
\* promise as they were, and the command that is pending keeps its own opcode
\* and its own timer until its Command Complete or its timeout completes it.
C26_BusyHasNoEffect ==
  /\ RejectedBusy =>
       /\ onCmdComplete = last.pre.onCmdComplete
       /\ cmdOpcode = last.pre.cmdOpcode
       /\ timers = last.pre.timers
       /\ completedBy = last.pre.completedBy
       /\ emitted = last.pre.emitted
       /\ \A m \in CallIds \ {last.id} : promise[m] = last.pre.promise[m]
       /\ last.id \notin sentIds
       /\ wire = <<>>
  /\ \A m \in CallIds :
       promise[m] = Awaiting =>
         /\ onCmdComplete = m
         /\ cmdOpcode = submitted[m]
         /\ timers = {m}
  /\ \A m \in CallIds :
       promise[m].st = "resolved" => promise[m].evt.opcode = submitted[m]

\* a command was rejected with Busy while another one was pending with its
\* caller awaiting, its opcode pending and its timer armed
C26_Witness ==
  /\ RejectedBusy
  /\ last.pre.onCmdComplete # 0
  /\ promise[last.pre.onCmdComplete] = Awaiting
  /\ last.cmd.opcode # cmdOpcode
  /\ last.pre.onCmdComplete \in timers

\* C27: no stale timer: the timer of a command that a matching Command
\* Complete has completed is no longer armed and never fires, and a caller is
\* resumed with Timeout only by the timer that its own call of send armed,
\* while that call holds the slot.
C27_NoStaleTimer ==
  /\ \A n \in CallIds : completedBy[n] = "event" => n \notin timers
  /\ last.op = "timeout" =>
       /\ last.pre.completedBy[last.id] = "none"
       /\ last.pre.onCmdComplete = last.id
       /\ last.id \in last.pre.timers
  /\ \A m \in CallIds :
       (promise[m].err = "Timeout" /\ last.pre.promise[m].err # "Timeout")
         => (last.op = "timeout" /\ last.id = m)

\* a command was completed by its Command Complete, and the next command was
\* later resumed with Timeout by its own timer
C27_Witness ==
  /\ last.op = "timeout"
  /\ last.id > 1
  /\ completedBy[last.id - 1] = "event"
  /\ promise[last.id - 1].st = "resolved"
  /\ promise[last.id] = Rejected(makeError("Timeout"))

\* the HCI packet of cmd cannot be built: its parameter block does not fit the
\* length byte
Unbuildable(cmd) == Len(cmd.params) > MaxUInt8

\* C28, as claimed: a command whose packet cannot be built fails without
\* occupying the pending slot: nothing is handed to the transport, no timer
\* stays armed, and the next submission is accepted, not rejected with Busy.
C28_UnbuildableLeavesSlotFree ==
  /\ (last.op = "send" /\ Unbuildable(last.cmd) /\ last.pre.onCmdComplete = 0)
       => /\ promise[last.id].st = "rejected"
          /\ last.id \notin sentIds
          /\ wire = <<>>
          /\ onCmdComplete = 0
          /\ timers = {}
  /\ (/\ last.op = "send"
      /\ last.id > 1
      /\ last.pre.promise[last.id - 1].err = RangeError.name
      /\ last.pre.completedBy[last.id - 1] = "none")
       => promise[last.id].err # "Busy"

\* C28, the part that holds: the command fails with the RangeError of the
\* length byte and nothing is handed to the transport.
C28_UnbuildableNotHandedOver ==
  (last.op = "send" /\ Unbuildable(last.cmd) /\ last.pre.onCmdComplete = 0)
    => /\ promise[last.id] = Rejected(RangeError)
       /\ last.id \notin sentIds
       /\ wire = <<>>

\* a command that could not be built holds the slot and its timer, and the
\* next submission was rejected with Busy
C28_UnbuildableHoldsSlot ==
  /\ last.op = "send"
  /\ last.id > 1
  /\ last.pre.promise[last.id - 1].err = RangeError.name
  /\ onCmdComplete = last.id - 1
  /\ (last.id - 1) \in timers
  /\ promise[last.id].err = "Busy"

(* ----------------------- LeSetScanEnabled.inParams --------------------- *)

\* 1 if b else 0
Flag(b) == IF b THEN 1 ELSE 0

\* the optional argument filterDuplicates was given and is true
FilterDuplicates == call.arg.filterDuplicates = <<TRUE>>

\* C29, as claimed: LeSetScanEnabled.inParams(enable, filterDuplicates) returns
\* exactly 2 bytes determined by its arguments: byte 0 is 1 if enable else 0,
\* byte 1 is 1 if filterDuplicates else 0.
C29_ScanEnabledTwoFlags ==
  (call.type = "LeSetScanEnabled" /\ call.fn = "LeSetScanEnabled.inParams")
    => /\ ~call.res.threw
       /\ call.res.value = <<Flag(call.arg.enable), Flag(FilterDuplicates)>>

\* C29, what the code returns: 2 bytes, byte 0 being 1 if filterDuplicates
\* else 0, whatever enable is; byte 1 is not written.
C29_ScanEnabledFirstByteIsFilter ==
  (call.type = "LeSetScanEnabled" /\ call.fn = "LeSetScanEnabled.inParams")
    => /\ ~call.res.threw
       /\ Len(call.res.value) = 2
       /\ call.res.value[1] = Flag(FilterDuplicates)
       /\ call.res.args = call.arg

\* scanning was enabled without the duplicate filter, and the bytes returned
\* say disabled, with a second byte that is no flag
C29_EnableLost ==
  /\ call.type = "LeSetScanEnabled"
  /\ call.fn = "LeSetScanEnabled.inParams"
  /\ call.arg.enable
  /\ call.arg.filterDuplicates = <<FALSE>>
  /\ call.res.value = <<0, 255>>

(* ------------------------ decoding and its input ------------------------ *)

\* what AdvDataParser.parse returns for the bytes the first call left in the
\* caller's buffer
ParsedAgain == parse([data |-> <<call.res.buffer>>])

\* C30, as claimed: decoding does not modify its input: after
\* AdvDataParser.parse(report) or AttFindInformationRsp.deserialize(buffer) the
\* input bytes are unchanged, and decoding the same input a second time returns
\* a result equal to the first.
C30_DecodingKeepsInput ==
  /\ (call.fn = "AdvDataParser.parse" /\ call.arg.data # <<>>)
       => /\ call.res.buffer = call.arg.data[1]
          /\ ParsedAgain.threw = call.res.threw
          /\ ParsedAgain.ad = call.res.ad
  /\ call.fn = "AttFindInformationRsp.deserialize"
       => /\ call.res.buffer = call.arg
          /\ AttFindInformationRsp_deserialize(call.res.buffer).msg = call.res.msg

\* C30, what the code does: the decoders reverse every UUID inside the
\* caller's buffer, so the second decoding restores the bytes, and it is the
\* third that returns what the first did.
C30_SecondDecodingRestoresInput ==
  /\ (call.fn = "AdvDataParser.parse" /\ call.arg.data # <<>>)
       => /\ Len(call.res.buffer) = Len(call.arg.data[1])
          /\ ParsedAgain.buffer = call.arg.data[1]
          /\ parse([data |-> <<ParsedAgain.buffer>>]) = call.res
  /\ call.fn = "AttFindInformationRsp.deserialize"
       => AttFindInformationRsp_deserialize(call.res.buffer).buffer = call.arg

\* a report with a service UUID was parsed, its bytes were changed, and
\* parsing it again gives another UUID string
C30_SecondParseDiffers ==
  /\ call.fn = "AdvDataParser.parse"
  /\ call.arg.data # <<>>
  /\ ~call.res.threw
  /\ call.res.ad.serviceUuids # <<>>
  /\ call.res.buffer # call.arg.data[1]
  /\ ParsedAgain.ad.serviceUuids # call.res.ad.serviceUuids

====
